---- MODULE Spec2Model ----
(***************************************************************************)
(* Borrowing-power / affordability calculation engine.                     *)
(*                                                                         *)
(* Number representation.  The program computes in IEEE doubles; the model *)
(* computes in fixed point:                                                *)
(*   money      : cents                                                    *)
(*   stamp duty : 1/10000 dollar (the product of a whole-dollar value with *)
(*                a four-decimal bracket rate is exact at this resolution) *)
(*   rates      : basis points (1/100 percent), 5.80% = 580                *)
(*   LVR        : 1/10000 percent, rounded up, so that every comparison    *)
(*                lvr <= tier of the program is decided exactly            *)
(*   annuity    : 1/10^8 (Scale)                                           *)
(***************************************************************************)
EXTENDS Integers, Sequences, FiniteSets, TLC

VARIABLES
    op,                \* name of the pure function applied ("none" before)
    args,              \* its arguments
    ret,               \* its result
    input,             \* the CalculationInput of the solve
    pc,                \* position of calculateBorrowingPowerIterative
    iterations,        \* let iterations
    currentRate,       \* let currentRate
    previousMaxLoan,   \* let previousMaxLoan
    iterationResults,  \* let iterationResults
    finalResult,       \* let finalResult: the latest round's result
    returned,          \* the CalculationResult the solve returned
    rateDatabase,      \* let rateDatabase: the rate table of the repository
    useRates           \* state of the useRates hook: currentRate,
                       \* currentComparisonRate, selectedRateConfig

vars == <<op, args, ret, input, pc, iterations, currentRate, previousMaxLoan,
          iterationResults, finalResult, returned, rateDatabase, useRates>>

solverVars == <<input, pc, iterations, currentRate, previousMaxLoan,
                iterationResults, finalResult, returned>>

callVars == <<op, args, ret>>

lookupVars == <<rateDatabase, useRates>>

None == [none |-> TRUE]

---------------------------------------------------------------------------
(* Units and exact integer arithmetic                                      *)

Cents(dollars) == dollars * 100

DutyUnitsPerDollar == 100 * 100

DutyUnitsPerCent == DutyUnitsPerDollar \div 100

ScaleRoot == 100 * 100

Scale == ScaleRoot * ScaleRoot

LvrUnitsPerPercent == 100 * 100

Abs(x) == IF x < 0 THEN -x ELSE x

\* F(v) with v evaluated once: TLC evaluates an operator argument or a LET
\* definition again at each use, a bound variable once
Let(v, F(_)) == CHOOSE r \in {F(x) : x \in {v}} : TRUE

\* floor(a * b / c) for c > 0, b >= 0, when (a % c) * b fits the integer width
MulDivSmall(a, b, c) == (a \div c) * b + ((a % c) * b) \div c

\* <<q, r>> with a * b = q * c + r and 0 <= r < c, for a >= 0, b >= 0, c > 0,
\* two bits of b at a time so that no intermediate exceeds 7 * c
RECURSIVE MulDivRem(_, _, _)
MulDivRem(a, b, c) ==
    IF b = 0 THEN <<0, 0>>
    ELSE Let(MulDivRem(a, b \div 4, c),
             LAMBDA h : LET t == 4 * h[2] + (b % 4) * (a % c)
                        IN  <<4 * h[1] + (b % 4) * (a \div c) + t \div c, t % c>>)

\* a * b / c rounded toward minus infinity, defined for b >= 0 and c > 0
MulDivFloor(a, b, c) ==
    Let(<<a, b, c>>,
        LAMBDA x :
          CASE x[3] > 0 /\ x[2] >= 0 /\ x[1] >= 0 -> MulDivRem(x[1], x[2], x[3])[1]
            [] x[3] > 0 /\ x[2] >= 0 /\ x[1] < 0 ->
                  Let(MulDivRem(-x[1], x[2], x[3]),
                      LAMBDA p : IF p[2] = 0 THEN -p[1] ELSE -p[1] - 1))

\* a * b / c rounded toward plus infinity, defined for b >= 0 and c > 0
MulDivCeil(a, b, c) ==
    Let(<<a, b, c>>,
        LAMBDA x :
          CASE x[3] > 0 /\ x[2] >= 0 /\ x[1] >= 0 ->
                  Let(MulDivRem(x[1], x[2], x[3]),
                      LAMBDA p : IF p[2] = 0 THEN p[1] ELSE p[1] + 1)
            [] x[3] > 0 /\ x[2] >= 0 /\ x[1] < 0 -> -(MulDivRem(-x[1], x[2], x[3])[1]))

\* floor(a * b / Scale) for 0 <= a, b <= Scale, by halves of ScaleRoot digits
MulScaled(a, b) ==
    LET ah == a \div ScaleRoot
        al == a % ScaleRoot
        bh == b \div ScaleRoot
        bl == b % ScaleRoot
    IN  ah * bh + ((ah * bl) \div ScaleRoot) + ((al * bh) \div ScaleRoot)
          + (((ah * bl) % ScaleRoot) + ((al * bh) % ScaleRoot)
               + ((al * bl) \div ScaleRoot)) \div ScaleRoot

---------------------------------------------------------------------------
(* Stamp Duty Calculator                                                   *)

\* threshold and baseAmount in dollars, rate in 1/10000 (0.0125 = 125),
\* concessionRate in percent (0.5 = 50); the first bracket of every table
\* has no baseAmount field, as in the source
STAMP_DUTY_RATES ==
    [NSW |-> [standard |-> <<
                [threshold |-> 0, rate |-> 125],
                [threshold |-> 100000, rate |-> 200, baseAmount |-> 1250],
                [threshold |-> 300000, rate |-> 350, baseAmount |-> 5250],
                [threshold |-> 1000000, rate |-> 450, baseAmount |-> 30500],
                [threshold |-> 3000000, rate |-> 700, baseAmount |-> 120500]>>,
              firstHomeBuyer |-> [exemptionThreshold |-> 650000,
                                  concessionThreshold |-> 800000,
                                  concessionRate |-> 50]],
     VIC |-> [standard |-> <<
                [threshold |-> 0, rate |-> 140],
                [threshold |-> 130000, rate |-> 240, baseAmount |-> 1820],
                [threshold |-> 440000, rate |-> 500, baseAmount |-> 9245],
                [threshold |-> 960000, rate |-> 550, baseAmount |-> 35320]>>,
              firstHomeBuyer |-> [exemptionThreshold |-> 600000,
                                  concessionThreshold |-> 750000,
                                  concessionRate |-> 25]],
     QLD |-> [standard |-> <<
                [threshold |-> 0, rate |-> 100],
                [threshold |-> 175000, rate |-> 200, baseAmount |-> 1750],
                [threshold |-> 540000, rate |-> 375, baseAmount |-> 9075],
                [threshold |-> 1000000, rate |-> 450, baseAmount |-> 26775]>>,
              firstHomeBuyer |-> [exemptionThreshold |-> 500000,
                                  concessionThreshold |-> 550000,
                                  concessionRate |-> 30]],
     WA  |-> [standard |-> <<
                [threshold |-> 0, rate |-> 190],
                [threshold |-> 120000, rate |-> 285, baseAmount |-> 2280],
                [threshold |-> 360000, rate |-> 305, baseAmount |-> 9105],
                [threshold |-> 725000, rate |-> 515, baseAmount |-> 20330]>>,
              firstHomeBuyer |-> [exemptionThreshold |-> 430000,
                                  concessionThreshold |-> 530000,
                                  concessionRate |-> 40]],
     SA  |-> [standard |-> <<
                [threshold |-> 0, rate |-> 100],
                [threshold |-> 50000, rate |-> 200, baseAmount |-> 500],
                [threshold |-> 200000, rate |-> 300, baseAmount |-> 3500],
                [threshold |-> 250000, rate |-> 350, baseAmount |-> 5000],
                [threshold |-> 500000, rate |-> 550, baseAmount |-> 13750]>>,
              firstHomeBuyer |-> [exemptionThreshold |-> 0,
                                  concessionThreshold |-> 0,
                                  concessionRate |-> 0]],
     TAS |-> [standard |-> <<
                [threshold |-> 0, rate |-> 175],
                [threshold |-> 100000, rate |-> 225, baseAmount |-> 1750],
                [threshold |-> 200000, rate |-> 350, baseAmount |-> 4000],
                [threshold |-> 500000, rate |-> 450, baseAmount |-> 14500]>>,
              firstHomeBuyer |-> [exemptionThreshold |-> 0,
                                  concessionThreshold |-> 500000,
                                  concessionRate |-> 50]],
     ACT |-> [standard |-> <<
                [threshold |-> 0, rate |-> 160],
                [threshold |-> 200000, rate |-> 242, baseAmount |-> 3200],
                [threshold |-> 300000, rate |-> 332, baseAmount |-> 5620],
                [threshold |-> 500000, rate |-> 412, baseAmount |-> 12260],
                [threshold |-> 750000, rate |-> 512, baseAmount |-> 22560],
                [threshold |-> 1000000, rate |-> 612, baseAmount |-> 35310],
                [threshold |-> 1455000, rate |-> 712, baseAmount |-> 63020]>>,
              firstHomeBuyer |-> [exemptionThreshold |-> 750000,
                                  concessionThreshold |-> 750000,
                                  concessionRate |-> 100]],
     NT  |-> [standard |-> <<
                [threshold |-> 0, rate |-> 150],
                [threshold |-> 525000, rate |-> 375, baseAmount |-> 7875],
                [threshold |-> 3000000, rate |-> 575, baseAmount |-> 101175]>>,
              firstHomeBuyer |-> [exemptionThreshold |-> 500000,
                                  concessionThreshold |-> 650000,
                                  concessionRate |-> 50]]]

Jurisdictions == DOMAIN STAMP_DUTY_RATES

\* const { threshold, rate, baseAmount = 0 } = applicableThreshold
baseAmountOf(t) == IF "baseAmount" \in DOMAIN t THEN t.baseAmount ELSE 0

\* applicableFrom with `value > thresholds[i].threshold`: a value equal to a
\* threshold stays in the bracket below
RECURSIVE applicableFromStrict(_, _, _, _)
applicableFromStrict(value, thresholds, i, found) ==
    IF i > Len(thresholds) THEN found
    ELSE IF value > Cents(thresholds[i].threshold)
         THEN applicableFromStrict(value, thresholds, i + 1, i)
         ELSE found

\* the for loop of calculateProgressiveDuty: index of the bracket it stops at
RECURSIVE applicableFrom(_, _, _, _)
applicableFrom(value, thresholds, i, found) ==
    IF i > Len(thresholds) THEN found
    ELSE IF value >= Cents(thresholds[i].threshold)
         THEN applicableFrom(value, thresholds, i + 1, i)
         ELSE found

applicableIndex(value, thresholds) == applicableFrom(value, thresholds, 2, 1)

\* value in cents, result in 1/10000 dollar
calculateProgressiveDuty(value, thresholds) ==
    LET t == thresholds[applicableIndex(value, thresholds)]
    IN  baseAmountOf(t) * DutyUnitsPerDollar
          + MulDivSmall(value - Cents(t.threshold), t.rate, 100)

stateRatesOf(state) ==
    IF state \in Jurisdictions THEN STAMP_DUTY_RATES[state]
    ELSE STAMP_DUTY_RATES["NSW"]

\* calculateStampDuty with `value < exemptionThreshold`: the exemption ends
\* one step early
calculateStampDutyExclusive(value, state, isFirstHomeBuyer, isInvestor) ==
    LET stateRates == stateRatesOf(state)
        fhb == stateRates.firstHomeBuyer
    IN  IF isFirstHomeBuyer /\ value < Cents(fhb.exemptionThreshold) THEN 0
        ELSE IF isFirstHomeBuyer /\ value <= Cents(fhb.concessionThreshold)
                  /\ fhb.concessionRate # 0
             THEN MulDivSmall(calculateProgressiveDuty(value, stateRates.standard),
                              100 - fhb.concessionRate, 100)
             ELSE calculateProgressiveDuty(value, stateRates.standard)

\* calculateStampDuty with `standardDuty * concessionRate`: the discount is
\* charged instead of deducted
calculateStampDutyDiscountCharged(value, state, isFirstHomeBuyer, isInvestor) ==
    LET stateRates == stateRatesOf(state)
        fhb == stateRates.firstHomeBuyer
    IN  IF isFirstHomeBuyer /\ value <= Cents(fhb.exemptionThreshold) THEN 0
        ELSE IF isFirstHomeBuyer /\ value <= Cents(fhb.concessionThreshold)
                  /\ fhb.concessionRate # 0
             THEN MulDivSmall(calculateProgressiveDuty(value, stateRates.standard),
                              fhb.concessionRate, 100)
             ELSE calculateProgressiveDuty(value, stateRates.standard)

\* calculateStampDuty with a surcharge of a tenth of the duty for investors
calculateStampDutySurcharged(value, state, isFirstHomeBuyer, isInvestor) ==
    LET stateRates == stateRatesOf(state)
        fhb == stateRates.firstHomeBuyer
        surcharge == IF isInvestor THEN 110 ELSE 100
    IN  IF isFirstHomeBuyer /\ value <= Cents(fhb.exemptionThreshold) THEN 0
        ELSE IF isFirstHomeBuyer /\ value <= Cents(fhb.concessionThreshold)
                  /\ fhb.concessionRate # 0
             THEN MulDivSmall(calculateProgressiveDuty(value, stateRates.standard),
                              100 - fhb.concessionRate, 100)
             ELSE MulDivSmall(calculateProgressiveDuty(value, stateRates.standard),
                              surcharge, 100)

\* value in cents, result in 1/10000 dollar
calculateStampDuty(value, state, isFirstHomeBuyer, isInvestor) ==
    LET stateRates == stateRatesOf(state)
        fhb == stateRates.firstHomeBuyer
    IN  IF isFirstHomeBuyer /\ value <= Cents(fhb.exemptionThreshold) THEN 0
        ELSE IF isFirstHomeBuyer /\ value <= Cents(fhb.concessionThreshold)
                  /\ fhb.concessionRate # 0
             THEN MulDivSmall(calculateProgressiveDuty(value, stateRates.standard),
                              100 - fhb.concessionRate, 100)
             ELSE calculateProgressiveDuty(value, stateRates.standard)

---------------------------------------------------------------------------
(* Tax Calculator                                                          *)

\* calculateTax with the third bracket's base mistyped (5029 for 5092)
calculateTaxMistyped(annualIncome) ==
    IF annualIncome <= Cents(18200) THEN 0
    ELSE IF annualIncome <= Cents(45000)
         THEN MulDivSmall(annualIncome - Cents(18200), 190, 1000)
    ELSE IF annualIncome <= Cents(120000)
         THEN Cents(5029) + MulDivSmall(annualIncome - Cents(45000), 325, 1000)
    ELSE IF annualIncome <= Cents(180000)
         THEN Cents(29467) + MulDivSmall(annualIncome - Cents(120000), 370, 1000)
    ELSE Cents(51667) + MulDivSmall(annualIncome - Cents(180000), 450, 1000)

\* annualIncome and result in cents
calculateTax(annualIncome) ==
    IF annualIncome <= Cents(18200) THEN 0
    ELSE IF annualIncome <= Cents(45000)
         THEN MulDivSmall(annualIncome - Cents(18200), 190, 1000)
    ELSE IF annualIncome <= Cents(120000)
         THEN Cents(5092) + MulDivSmall(annualIncome - Cents(45000), 325, 1000)
    ELSE IF annualIncome <= Cents(180000)
         THEN Cents(29467) + MulDivSmall(annualIncome - Cents(120000), 370, 1000)
    ELSE Cents(51667) + MulDivSmall(annualIncome - Cents(180000), 450, 1000)

---------------------------------------------------------------------------
(* Rate Resolver                                                           *)

\* getLvrRangeFromValue with `<` for `<=`: a boundary LVR falls in the bucket above
getLvrRangeExclusive(lvr) ==
    IF lvr < 60 * LvrUnitsPerPercent THEN "0_60"
    ELSE IF lvr < 70 * LvrUnitsPerPercent THEN "60_70"
    ELSE IF lvr < 80 * LvrUnitsPerPercent THEN "70_80"
    ELSE IF lvr < 85 * LvrUnitsPerPercent THEN "80_85"
    ELSE IF lvr < 90 * LvrUnitsPerPercent THEN "85_90"
    ELSE "90_95"

\* lvr in 1/10000 percent
getLvrRangeFromValue(lvr) ==
    IF lvr <= 60 * LvrUnitsPerPercent THEN "0_60"
    ELSE IF lvr <= 70 * LvrUnitsPerPercent THEN "60_70"
    ELSE IF lvr <= 80 * LvrUnitsPerPercent THEN "70_80"
    ELSE IF lvr <= 85 * LvrUnitsPerPercent THEN "80_85"
    ELSE IF lvr <= 90 * LvrUnitsPerPercent THEN "85_90"
    ELSE "90_95"

\* maxLvr in percent, rate in basis points
LVR_SPECIFIC_RATES ==
    <<[maxLvr |-> 50, rate |-> 550],
      [maxLvr |-> 60, rate |-> 560],
      [maxLvr |-> 70, rate |-> 570],
      [maxLvr |-> 80, rate |-> 580],
      [maxLvr |-> 85, rate |-> 650],
      [maxLvr |-> 100, rate |-> 680]>>

\* Array.prototype.find: the first tier from index i with lvr <= tier.maxLvr,
\* 0 for undefined
RECURSIVE findTier(_, _)
findTier(lvr, i) ==
    IF i > Len(LVR_SPECIFIC_RATES) THEN 0
    ELSE IF lvr <= LVR_SPECIFIC_RATES[i].maxLvr * LvrUnitsPerPercent THEN i
    ELSE findTier(lvr, i + 1)

\* determineInterestRate with the first-home-buyer discount from `lvr >= 80`
determineInterestRateDiscountFrom80(lvr, baseRate, isFirstHomeBuyer, isInvestor) ==
    LET found == findTier(lvr, 1)
        applicableTier == IF found # 0 THEN LVR_SPECIFIC_RATES[found]
                          ELSE LVR_SPECIFIC_RATES[Len(LVR_SPECIFIC_RATES)]
        investorRate == applicableTier.rate + (IF isInvestor THEN 20 ELSE 0)
    IN  investorRate
          - (IF isFirstHomeBuyer /\ lvr >= 80 * LvrUnitsPerPercent THEN 10 ELSE 0)

\* determineInterestRate pricing the tier from baseRate: the tier's rate over
\* the lowest tier's is added to baseRate
determineInterestRateFromBase(lvr, baseRate, isFirstHomeBuyer, isInvestor) ==
    LET found == findTier(lvr, 1)
        applicableTier == IF found # 0 THEN LVR_SPECIFIC_RATES[found]
                          ELSE LVR_SPECIFIC_RATES[Len(LVR_SPECIFIC_RATES)]
        investorRate == baseRate + (applicableTier.rate - LVR_SPECIFIC_RATES[1].rate)
                          + (IF isInvestor THEN 20 ELSE 0)
    IN  investorRate
          - (IF isFirstHomeBuyer /\ lvr > 80 * LvrUnitsPerPercent THEN 10 ELSE 0)

\* lvr in 1/10000 percent, result in basis points; baseRate is not read
determineInterestRate(lvr, baseRate, isFirstHomeBuyer, isInvestor) ==
    LET found == findTier(lvr, 1)
        applicableTier == IF found # 0 THEN LVR_SPECIFIC_RATES[found]
                          ELSE LVR_SPECIFIC_RATES[Len(LVR_SPECIFIC_RATES)]
        investorRate == applicableTier.rate + (IF isInvestor THEN 20 ELSE 0)
    IN  investorRate
          - (IF isFirstHomeBuyer /\ lvr > 80 * LvrUnitsPerPercent THEN 10 ELSE 0)

---------------------------------------------------------------------------
(* Formula-driven rate resolver                                            *)

\* maxLvr in percent, rate in basis points
MORTGAGE_CHOICE_FREEDOM_RATES ==
    <<[maxLvr |-> 60, rate |-> 560],
      [maxLvr |-> 70, rate |-> 570],
      [maxLvr |-> 80, rate |-> 590],
      [maxLvr |-> 85, rate |-> 610],
      [maxLvr |-> 90, rate |-> 630],
      [maxLvr |-> 95, rate |-> 650]>>

\* enum LvrTier, in the order of its declaration
LvrTier == <<"TIER_50", "TIER_60", "TIER_70", "TIER_80", "TIER_85", "TIER_90_PLUS">>

\* find with `lvr < tier.maxLvr`, 0 for undefined
RECURSIVE findFreedomTierExclusive(_, _)
findFreedomTierExclusive(lvr, i) ==
    IF i > Len(MORTGAGE_CHOICE_FREEDOM_RATES) THEN 0
    ELSE IF lvr < MORTGAGE_CHOICE_FREEDOM_RATES[i].maxLvr THEN i
    ELSE findFreedomTierExclusive(lvr, i + 1)

\* Array.prototype.find: the first tier from index i with lvr <= tier.maxLvr,
\* 0 for undefined; lvr in percent
RECURSIVE findFreedomTier(_, _)
findFreedomTier(lvr, i) ==
    IF i > Len(MORTGAGE_CHOICE_FREEDOM_RATES) THEN 0
    ELSE IF lvr <= MORTGAGE_CHOICE_FREEDOM_RATES[i].maxLvr THEN i
    ELSE findFreedomTier(lvr, i + 1)

getMortgageChoiceFreedomRate(lvr) ==
    LET found == findFreedomTier(lvr, 1)
    IN  IF found # 0 THEN MORTGAGE_CHOICE_FREEDOM_RATES[found].rate
        ELSE MORTGAGE_CHOICE_FREEDOM_RATES[Len(MORTGAGE_CHOICE_FREEDOM_RATES)].rate

\* the switch on lvrTier; lvrPercentage stays 0 for any other value
lvrPercentageOf(lvrTier) ==
    CASE lvrTier = "TIER_50" -> 50
      [] lvrTier = "TIER_60" -> 60
      [] lvrTier = "TIER_70" -> 70
      [] lvrTier = "TIER_80" -> 80
      [] lvrTier = "TIER_85" -> 85
      [] lvrTier = "TIER_90_PLUS" -> 90
      [] OTHER -> 0

\* 1/100 basis point, the resolution toFixed(2) rounds away
RateUnitsPerBasisPoint == 100

\* parseFloat(x.toFixed(2)): x in 1/100 basis point, result in basis points
toFixed2(x) == (x + RateUnitsPerBasisPoint \div 2) \div RateUnitsPerBasisPoint

\* rate and comparisonRate in basis points
getRateByConfiguration(lvrTier, interestRateType, repaymentType, featureType, loanPurpose) ==
    LET unit == RateUnitsPerBasisPoint
        tierRate0 == getMortgageChoiceFreedomRate(lvrPercentageOf(lvrTier)) * unit
        investor == loanPurpose = "INVESTOR"
        interestOnly == repaymentType = "INTEREST_ONLY"
        offset == featureType = "OFFSET"
        baseRate ==
            tierRate0
              + (IF investor THEN 20 * unit ELSE 0)
              + (CASE interestRateType = "FIXED_1YR" -> -10 * unit
                   [] interestRateType = "FIXED_2YR" -> -5 * unit
                   [] interestRateType = "FIXED_3YR" -> 5 * unit
                   [] interestRateType = "FIXED_5YR" -> 15 * unit
                   [] OTHER -> 0)
              + (IF interestOnly THEN 30 * unit ELSE 0)
              + (IF offset THEN 10 * unit ELSE 0)
        comparisonRateAdjustment ==
            20 * unit
              + (IF investor THEN 10 * unit ELSE 0)
              + (IF interestOnly THEN 10 * unit ELSE 0)
              + (IF offset THEN 5 * unit ELSE 0)
    IN  [rate |-> toFixed2(baseRate),
         comparisonRate |-> toFixed2(baseRate + comparisonRateAdjustment)]

---------------------------------------------------------------------------
(* Rate repository, rate service and the useRates hook                     *)

\* maxLoanAmount: null (no limit)
null == -1

\* insertByRate with the comparator `b.rate - a.rate`: highest rate first
RECURSIVE insertByRateDescending(_, _)
insertByRateDescending(sorted, x) ==
    IF sorted = <<>> THEN <<x>>
    ELSE IF x.rate > Head(sorted).rate THEN <<x>> \o sorted
         ELSE <<Head(sorted)>> \o insertByRateDescending(Tail(sorted), x)

\* a step of the stable sort under `(a, b) => a.rate - b.rate`: x goes behind
\* every element whose rate is not above its own
RECURSIVE insertByRate(_, _)
insertByRate(sorted, x) ==
    IF sorted = <<>> THEN <<x>>
    ELSE IF x.rate < Head(sorted).rate THEN <<x>> \o sorted
         ELSE <<Head(sorted)>> \o insertByRate(Tail(sorted), x)

\* [...eligibleRates].sort((a, b) => a.rate - b.rate)
RECURSIVE sortByRate(_)
sortByRate(rates) ==
    IF rates = <<>> THEN <<>>
    ELSE insertByRate(sortByRate(SubSeq(rates, 1, Len(rates) - 1)), rates[Len(rates)])

\* the filter of findBestRate; loanAmount in cents, lvrPercentage in
\* 1/10000 percent
eligibleRatesOf(lvrPercentage, productType, repaymentType, borrowerType, loanAmount, isFirstHomeBuyer, hasOffset, hasRedraw) ==
    LET lvrRange == getLvrRangeFromValue(lvrPercentage)
        eligible(rate) ==
            /\ rate.lvrRange = lvrRange
            /\ rate.productType = productType
            /\ rate.repaymentType = repaymentType
            /\ rate.borrowerType = borrowerType
            /\ loanAmount >= rate.minLoanAmount
            /\ (rate.maxLoanAmount = null \/ loanAmount <= rate.maxLoanAmount)
            /\ (IF isFirstHomeBuyer THEN rate.isFirstHomeBuyerEligible ELSE TRUE)
            /\ (IF hasOffset THEN rate.hasOffset ELSE TRUE)
            /\ (IF hasRedraw THEN rate.hasRedraw ELSE TRUE)
    IN  SelectSeq(rateDatabase, eligible)

\* sortedCopy with `rateDatabase.sort(...)`: the table itself is sorted
sortedInPlace(table, eligibleRates) ==
    [rateDatabase |-> sortByRate(table), sortedRates |-> sortByRate(eligibleRates)]

\* `[...eligibleRates].sort(...)`: Array.prototype.sort sorts its receiver in
\* place, and the receiver is the spread copy of the array filter returned
sortedCopy(table, eligibleRates) ==
    [rateDatabase |-> table, sortedRates |-> sortByRate(eligibleRates)]

\* getRatesByLender: filter returns a new array
getRatesByLender(lender) ==
    LET ofLender(rate) == rate.lender = lender
    IN  SelectSeq(rateDatabase, ofLender)

\* getAllRates
getAllRates == rateDatabase

\* None for null
findBestRate(lvrPercentage, productType, repaymentType, borrowerType, loanAmount, isFirstHomeBuyer, hasOffset, hasRedraw) ==
    LET sortedRates == sortByRate(eligibleRatesOf(lvrPercentage, productType,
                           repaymentType, borrowerType, loanAmount,
                           isFirstHomeBuyer, hasOffset, hasRedraw))
    IN  IF Len(sortedRates) > 0 THEN sortedRates[1] ELSE None

getBestRate(lvrPercentage, productType, repaymentType, borrowerType, loanAmount, isFirstHomeBuyer, hasOffset, hasRedraw) ==
    findBestRate(lvrPercentage, productType, repaymentType, borrowerType,
                 loanAmount, isFirstHomeBuyer, hasOffset, hasRedraw)

\* basis points
getDefaultRate == 574

getDefaultComparisonRate == 565

\* the three useState calls of useRates
useRatesInitially ==
    [currentRate |-> getDefaultRate,
     currentComparisonRate |-> getDefaultComparisonRate,
     selectedRateConfig |-> None]

\* setRatesAfter with no else branch: a failed lookup leaves the state alone
setRatesKept(state, bestRate) ==
    IF bestRate # None
    THEN [currentRate |-> bestRate.rate,
          currentComparisonRate |-> bestRate.comparisonRate,
          selectedRateConfig |-> bestRate]
    ELSE state

\* the setters useRates.findBestRate calls on the result of the lookup
setRatesAfter(state, bestRate) ==
    IF bestRate # None
    THEN [currentRate |-> bestRate.rate,
          currentComparisonRate |-> bestRate.comparisonRate,
          selectedRateConfig |-> bestRate]
    ELSE [currentRate |-> getDefaultRate,
          currentComparisonRate |-> getDefaultComparisonRate,
          selectedRateConfig |-> None]

LookupIdle ==
    /\ rateDatabase = <<>>
    /\ useRates = useRatesInitially

---------------------------------------------------------------------------
(* Shading Rules                                                           *)

\* percentage per income type
INCOME_SHADING_RULES ==
    ("PRIMARY" :> 100) @@ ("SUPPLEMENTARY" :> 90) @@ ("OTHER" :> 90) @@ ("RENTAL" :> 90)

\* CREDIT_CARD.percentage in 1/10 percent (3.8 = 38), INTEREST_BUFFER.percentage
\* in basis points (2.0 = 200), amounts in dollars
DEBT_SHADING_RULES ==
    [CREDIT_CARD |-> 38, EXISTING_LOAN |-> 1000, LIVING_EXPENSE_BASE |-> 20000,
     DEPENDENT_COST |-> 6000, INTEREST_BUFFER |-> 200]

applyIncomeShading(amount, incomeType) ==
    MulDivSmall(amount, INCOME_SHADING_RULES[incomeType], 100)

\* the 3.0 buffer of calculateAssessmentRate in place of the rule's 2.0
InterestBufferOfRateService == 200 + 100

\* basis points
INTEREST_BUFFER == DEBT_SHADING_RULES.INTEREST_BUFFER

\* getExpenseAmount('LIVING_EXPENSE_BASE') in place of the dependent cost
DependentCostOfLivingExpenseBase == Cents(DEBT_SHADING_RULES.LIVING_EXPENSE_BASE)

\* cents
DEPENDENT_COST == Cents(DEBT_SHADING_RULES.DEPENDENT_COST)

---------------------------------------------------------------------------
(* Income/Expense/Debt Normalizer                                          *)

Frequencies == {"weekly", "fortnightly", "monthly", "annual"}

annualMultipliers == [weekly |-> 52, fortnightly |-> 26, monthly |-> 12, annual |-> 1]

normalizeToAnnual(fin) == fin.amount * annualMultipliers[fin.frequency]

\* weekly 52/12, fortnightly 26/12, monthly 1, annual 1/12
normalizeToMonthly(fin) ==
    MulDivSmall(fin.amount, annualMultipliers[fin.frequency], 12)

\* the income of one borrower: the body of the reduce callbacks
borrowerIncomeOf(borrower) ==
    applyIncomeShading(normalizeToAnnual(borrower.primary), "PRIMARY")
      + (IF "supplementary" \in DOMAIN borrower
         THEN applyIncomeShading(normalizeToAnnual(borrower.supplementary), "SUPPLEMENTARY")
         ELSE 0)
      + (IF "other" \in DOMAIN borrower
         THEN applyIncomeShading(normalizeToAnnual(borrower.other), "OTHER")
         ELSE 0)
      + (IF "rental" \in DOMAIN borrower
         THEN applyIncomeShading(normalizeToAnnual(borrower.rental), "RENTAL")
         ELSE 0)

\* calculateTotalIncome counting the first borrower only
calculateTotalIncomeFirstBorrower(borrowers) ==
    IF borrowers = <<>> THEN 0 ELSE borrowerIncomeOf(borrowers[1])

RECURSIVE calculateTotalIncome(_)
calculateTotalIncome(borrowers) ==
    IF borrowers = <<>> THEN 0
    ELSE calculateTotalIncome(SubSeq(borrowers, 1, Len(borrowers) - 1))
           + borrowerIncomeOf(borrowers[Len(borrowers)])

RECURSIVE calculateTotalTax(_)
calculateTotalTax(borrowers) ==
    IF borrowers = <<>> THEN 0
    ELSE calculateTotalTax(SubSeq(borrowers, 1, Len(borrowers) - 1))
           + calculateTax(borrowerIncomeOf(borrowers[Len(borrowers)]))

---------------------------------------------------------------------------
(* Annuity formulas                                                        *)

\* rate / 100 / 12 in 1/Scale, rate in basis points
monthlyRateOf(rate) == MulDivSmall(Scale, rate, 100 * 100 * 12)

\* x^n in 1/Scale for 0 <= x <= Scale, by repeated squaring
RECURSIVE PowScaled(_, _)
PowScaled(x, n) ==
    IF n = 0 THEN Scale
    ELSE Let(PowScaled(x, n \div 2),
             LAMBDA h : Let(MulScaled(h, h),
                            LAMBDA sq : IF n % 2 = 1 THEN MulScaled(sq, x) ELSE sq))

\* Math.pow(1 + monthlyRate, -nper) in 1/Scale, as (1 / (1 + monthlyRate))^nper
discountOf(monthlyRate, nper) ==
    Let(MulDivFloor(Scale, Scale, Scale + monthlyRate),
        LAMBDA v : PowScaled(v, nper))

\* payment and result in cents, rate in basis points
calculatePV(payment, rate, nper) ==
    Let(monthlyRateOf(rate),
        LAMBDA monthlyRate :
          MulDivFloor(payment, Scale - discountOf(monthlyRate, nper), monthlyRate))

\* calculatePmt without the annuity denominator: the interest of one month
calculatePmtInterestOnly(principal, rate, nper) ==
    Let(monthlyRateOf(rate),
        LAMBDA monthlyRate : MulDivFloor(principal, monthlyRate, Scale))

\* principal and result in cents, rate in basis points
calculatePmt(principal, rate, nper) ==
    Let(monthlyRateOf(rate),
        LAMBDA monthlyRate :
          MulDivFloor(principal, monthlyRate, Scale - discountOf(monthlyRate, nper)))

\* 2000 + propertyValue * 0.001, in cents
calculateOtherCharges(propertyValue) == Cents(2000) + propertyValue \div 1000

---------------------------------------------------------------------------
(* Borrowing Power Solver                                                  *)

\* calculateStampDutyFromUtils, brought to cents
stampDutyCents(value, in) ==
    calculateStampDuty(value, in.state, in.isFirstHomeBuyer, in.isInvestor)
        \div DutyUnitsPerCent

\* refineProperty with the loop `for (let i = 0; i < 4; i++)`
RECURSIVE refinePropertyFourRounds(_, _, _, _)
refinePropertyFourRounds(maxProperty, maxLoan, in, i) ==
    IF i >= 4 THEN maxProperty
    ELSE LET totalCosts == stampDutyCents(maxProperty, in)
                             + calculateOtherCharges(maxProperty)
             availableDeposit == in.deposit - totalCosts
         IN  Let(maxLoan + availableDeposit,
                 LAMBDA next : refinePropertyFourRounds(next, maxLoan, in, i + 1))

\* the for loop `for (let i = 0; i < 5; i++)` from round i
RECURSIVE refineProperty(_, _, _, _)
refineProperty(maxProperty, maxLoan, in, i) ==
    IF i >= 5 THEN maxProperty
    ELSE LET totalCosts == stampDutyCents(maxProperty, in)
                             + calculateOtherCharges(maxProperty)
             availableDeposit == in.deposit - totalCosts
         IN  Let(maxLoan + availableDeposit,
                 LAMBDA next : refineProperty(next, maxLoan, in, i + 1))

\* loan / value * 100 in 1/10000 percent, rounded up
lvrOf(loan, value) == MulDivCeil(loan, 100 * LvrUnitsPerPercent, value)

\* (1 - deposit / propertyValue) * 100 when there is a deposit, else 80
initialLvrOf(in) ==
    IF in.deposit > 0 THEN lvrOf(in.propertyValue - in.deposit, in.propertyValue)
    ELSE 80 * LvrUnitsPerPercent

\* calculateBorrowingPower down to monthlyDisposable and the rate
assessmentOf(in) ==
    LET totalAnnualIncome == calculateTotalIncome(in.borrowers)
        totalTax == calculateTotalTax(in.borrowers)
        annualNetIncome == totalAnnualIncome - totalTax
        monthlyNetIncome == annualNetIncome \div 12
        baseMonthlyExpenses == normalizeToMonthly(in.expenses)
        dependentCosts == (DEPENDENT_COST * in.dependents) \div 12
        totalMonthlyExpenses == baseMonthlyExpenses + dependentCosts
        monthlyDebt == IF "existingDebt" \in DOMAIN in
                       THEN normalizeToMonthly(in.existingDebt) ELSE 0
        creditCardLimit == IF "creditCardLimit" \in DOMAIN in
                           THEN in.creditCardLimit ELSE 0
        monthlyCreditCard ==
            MulDivSmall(creditCardLimit, DEBT_SHADING_RULES.CREDIT_CARD, 1000)
        initialLVR == initialLvrOf(in)
        lvrBasedRate ==
            IF in.interestRate # 0 THEN in.interestRate
            ELSE determineInterestRate(initialLVR, in.baseRate,
                                       in.isFirstHomeBuyer, in.isInvestor)
    IN  [totalAnnualIncome |-> totalAnnualIncome,
         annualNetIncome |-> annualNetIncome,
         totalMonthlyExpenses |-> totalMonthlyExpenses,
         monthlyDebt |-> monthlyDebt,
         monthlyCreditCard |-> monthlyCreditCard,
         monthlyDisposable |->
            monthlyNetIncome - totalMonthlyExpenses - monthlyDebt - monthlyCreditCard,
         lvrBasedRate |-> lvrBasedRate,
         effectiveRate |-> lvrBasedRate + INTEREST_BUFFER,
         existingDebtAnnual |-> IF "existingDebt" \in DOMAIN in
                                THEN normalizeToAnnual(in.existingDebt) ELSE 0]

\* calculateBorrowingPower from `const maxLoan` to the final costs
propertyOf(in, a) ==
    Let(calculatePV(a.monthlyDisposable, a.effectiveRate, in.loanTerm * 12),
        LAMBDA maxLoan :
          Let(refineProperty(maxLoan + in.deposit, maxLoan, in, 0),
              LAMBDA maxProperty :
                [maxLoan |-> maxLoan,
                 maxProperty |-> maxProperty,
                 finalStampDuty |-> stampDutyCents(maxProperty, in),
                 finalOtherCharges |-> calculateOtherCharges(maxProperty)]))

\* calculateBorrowingPower from the serviceability check to the result
resultOf(in, a, p) ==
    LET totalUpfrontCosts == p.finalStampDuty + p.finalOtherCharges
        finalDeposit == in.deposit - totalUpfrontCosts
        potentialLoan == in.propertyValue - finalDeposit
    IN  Let(<<calculatePmt(potentialLoan, a.effectiveRate, in.loanTerm * 12),
              lvrOf(potentialLoan, in.propertyValue)>>,
            LAMBDA x :
              LET monthlyRepayment == x[1]
                  loanToValueRatio == x[2]
                  surplus == a.monthlyDisposable - monthlyRepayment
              IN  [maxLoan |-> p.maxLoan,
                   maxProperty |-> p.maxProperty,
                   stampDuty |-> p.finalStampDuty,
                   deposit |-> finalDeposit,
                   originalSavings |-> in.deposit,
                   otherCharges |-> p.finalOtherCharges,
                   loanToValueRatio |-> loanToValueRatio,
                   monthlyRepayment |-> monthlyRepayment,
                   isServiceable |-> (surplus >= 0 /\ potentialLoan <= p.maxLoan),
                   surplus |-> surplus,
                   totalIncome |-> a.totalAnnualIncome,
                   annualNetIncome |-> a.annualNetIncome,
                   totalExpenses |-> a.totalMonthlyExpenses * 12,
                   totalDebt |-> (a.monthlyDebt + a.monthlyCreditCard) * 12,
                   iterations |-> 1,
                   iterationResults |-> <<[iteration |-> 1, lvr |-> loanToValueRatio,
                                           rate |-> a.lvrBasedRate,
                                           maxLoan |-> p.maxLoan]>>,
                   finalRate |-> a.lvrBasedRate,
                   debtBreakdown |-> [existingDebt |-> a.existingDebtAnnual,
                                      creditCard |-> a.monthlyCreditCard * 12,
                                      proposedLoan |-> 0,
                                      creditCardFactor |-> DEBT_SHADING_RULES.CREDIT_CARD,
                                      assessmentRate |-> a.effectiveRate,
                                      bufferRate |-> INTEREST_BUFFER]])

calculateBorrowingPower(input0) ==
    Let(input0,
        LAMBDA in : Let(assessmentOf(in),
                        LAMBDA a : Let(propertyOf(in, a),
                                       LAMBDA p : resultOf(in, a, p))))

\* calculateLoanServiceability with `surplus > 0`: breaking even is not
\* serviceable
calculateLoanServiceabilityStrict(in, loanAmount) ==
    Let(<<assessmentOf(in).monthlyDisposable,
          calculatePmt(loanAmount,
                       determineInterestRate(lvrOf(loanAmount, in.propertyValue),
                                             in.baseRate, in.isFirstHomeBuyer,
                                             in.isInvestor) + INTEREST_BUFFER,
                       in.loanTerm * 12)>>,
        LAMBDA x : [isServiceable |-> x[1] - x[2] > 0,
                    surplus |-> x[1] - x[2],
                    monthlyRepayment |-> x[2]])

\* the income, expense and debt lines of calculateLoanServiceability are those
\* of calculateBorrowingPower; x is <<monthlyDisposable, monthlyRepayment>>
calculateLoanServiceability(in, loanAmount) ==
    Let(<<assessmentOf(in).monthlyDisposable,
          calculatePmt(loanAmount,
                       determineInterestRate(lvrOf(loanAmount, in.propertyValue),
                                             in.baseRate, in.isFirstHomeBuyer,
                                             in.isInvestor) + INTEREST_BUFFER,
                       in.loanTerm * 12)>>,
        LAMBDA x : [isServiceable |-> x[1] - x[2] >= 0,
                    surplus |-> x[1] - x[2],
                    monthlyRepayment |-> x[2]])

---------------------------------------------------------------------------
(* The functions on every input: JavaScript numbers that are not finite     *)

\* value is the sign of a number that is not finite, 0 for NaN
Number(v) == [finite |-> TRUE, value |-> v]

NaN == [finite |-> FALSE, value |-> 0]

Infinity == [finite |-> FALSE, value |-> 1]

NegInfinity == [finite |-> FALSE, value |-> -1]

sign(x) == IF x > 0 THEN 1 ELSE IF x < 0 THEN -1 ELSE 0

\* numerator / denominator, for a numerator of the given sign and a
\* denominator that is not negative; quotient is the value when it is finite
quotientNumber(numeratorSign, denominator, quotient) ==
    IF denominator # 0 THEN Number(quotient)
    ELSE IF numeratorSign = 0 THEN NaN
    ELSE IF numeratorSign > 0 THEN Infinity
    ELSE NegInfinity

\* a - b
minusNumber(a, b) ==
    IF a.finite /\ b.finite THEN Number(a.value - b.value)
    ELSE IF a = NaN \/ b = NaN \/ a = b THEN NaN
    ELSE IF ~a.finite THEN a
    ELSE IF b = Infinity THEN NegInfinity
    ELSE Infinity

\* payment * (1 - Math.pow(1 + monthlyRate, -nper)) / monthlyRate, for
\* rate >= 0 and nper >= 0
calculatePVNumber(payment, rate, nper) ==
    Let(monthlyRateOf(rate),
        LAMBDA monthlyRate :
          quotientNumber(sign(payment) * sign(Scale - discountOf(monthlyRate, nper)),
                         monthlyRate, calculatePV(payment, rate, nper)))

\* principal * monthlyRate / (1 - Math.pow(1 + monthlyRate, -nper)), for
\* rate >= 0 and nper >= 0
calculatePmtNumber(principal, rate, nper) ==
    Let(monthlyRateOf(rate),
        LAMBDA monthlyRate :
          quotientNumber(sign(principal) * sign(monthlyRate),
                         Scale - discountOf(monthlyRate, nper),
                         calculatePmt(principal, rate, nper)))

\* amount * multipliers[frequency] is NaN for a frequency that is no key
frequencyKnown(fin) == fin.frequency \in Frequencies

frequenciesKnown(in) ==
    /\ \A i \in DOMAIN in.borrowers :
          \A k \in DOMAIN in.borrowers[i] : frequencyKnown(in.borrowers[i][k])
    /\ frequencyKnown(in.expenses)
    /\ "existingDebt" \in DOMAIN in => frequencyKnown(in.existingDebt)

\* monthlyDisposable: NaN as soon as one normalized amount is
monthlyDisposableNumber(in) ==
    IF frequenciesKnown(in) THEN Number(assessmentOf(in).monthlyDisposable) ELSE NaN

\* determineInterestRate of an LVR that may not be finite: no tier is found,
\* and only Infinity is above 80
determineInterestRateNumber(lvr, baseRate, isFirstHomeBuyer, isInvestor) ==
    IF lvr.finite
    THEN determineInterestRate(lvr.value, baseRate, isFirstHomeBuyer, isInvestor)
    ELSE LVR_SPECIFIC_RATES[Len(LVR_SPECIFIC_RATES)].rate
           + (IF isInvestor THEN 20 ELSE 0)
           - (IF isFirstHomeBuyer /\ lvr = Infinity THEN 10 ELSE 0)

\* calculateLoanServiceability for loanAmount >= 0, propertyValue >= 0 and
\* loanTerm >= 0: the function has no throw statement and tests no input
calculateLoanServiceabilityNumber(in, loanAmount) ==
    LET loanToValueRatio ==
            quotientNumber(sign(loanAmount), in.propertyValue,
                           lvrOf(loanAmount, in.propertyValue))
        lvrBasedRate ==
            determineInterestRateNumber(loanToValueRatio, in.baseRate,
                                        in.isFirstHomeBuyer, in.isInvestor)
        monthlyRepayment ==
            calculatePmtNumber(loanAmount, lvrBasedRate + INTEREST_BUFFER,
                               in.loanTerm * 12)
        surplus == minusNumber(monthlyDisposableNumber(in), monthlyRepayment)
    IN  [threw |-> FALSE,
         isServiceable |-> IF surplus.finite THEN surplus.value >= 0
                           ELSE surplus = Infinity,
         surplus |-> surplus,
         monthlyRepayment |-> monthlyRepayment]

\* a cap of one round more
MaxIterationsOneMore == 10 + 1

MAX_ITERATIONS == 10

\* convergenceTest with `||` for `&&`
convergenceTestEither(maxLoan, previous, newRate, rate) ==
    Abs(maxLoan - previous) < Cents(1000) \/ Abs(newRate - rate) < 1

\* convergenceTest without the test of the rate
convergenceTestLoanOnly(maxLoan, previous, newRate, rate) ==
    Abs(maxLoan - previous) < Cents(1000)

\* convergenceTest without the test of the loan
convergenceTestRateOnly(maxLoan, previous, newRate, rate) ==
    Abs(newRate - rate) < 1

\* `loanChange < 1000 && rateChange < 0.01`, in cents and basis points
convergenceTest(maxLoan, previous, newRate, rate) ==
    Abs(maxLoan - previous) < Cents(1000) /\ Abs(newRate - rate) < 1

\* finalRateOf returning the rate the round was computed with
finalRateStale(newRate, rate) == rate

\* `const finalRate = newRate`
finalRateOf(newRate, rate) == newRate

\* iterationEntry recording the rate resolved at the round's LVR
iterationEntryNewRate(iteration, result, rate) ==
    [iteration |-> iteration, lvr |-> result.loanToValueRatio,
     rate |-> determineInterestRate(result.loanToValueRatio, input.baseRate,
                                    input.isFirstHomeBuyer, input.isInvestor),
     maxLoan |-> result.maxLoan]

\* the object of `iterationResults.push({...})`
iterationEntry(iteration, result, rate) ==
    [iteration |-> iteration, lvr |-> result.loanToValueRatio,
     rate |-> rate, maxLoan |-> result.maxLoan]

\* the result returned when the loop is left with no round run
emptyResult(in) ==
    [maxLoan |-> 0, maxProperty |-> 0, stampDuty |-> 0, deposit |-> 0,
     originalSavings |-> in.deposit, otherCharges |-> 0, loanToValueRatio |-> 0,
     monthlyRepayment |-> 0, isServiceable |-> FALSE, surplus |-> 0,
     totalIncome |-> 0, annualNetIncome |-> 0, totalExpenses |-> 0,
     totalDebt |-> 0, iterations |-> MAX_ITERATIONS, iterationResults |-> <<>>,
     finalRate |-> 0]

\* calculateBorrowingPowerIterative up to the while loop
Begin ==
    /\ pc = "start"
    /\ currentRate' = determineInterestRate(initialLvrOf(input), input.baseRate,
                                            input.isFirstHomeBuyer, input.isInvestor)
    /\ previousMaxLoan' = 0
    /\ iterations' = 0
    /\ iterationResults' = <<>>
    /\ finalResult' = None
    /\ pc' = "loop"
    /\ UNCHANGED <<input, returned, callVars, lookupVars>>

\* one evaluation of `while (iterations < MAX_ITERATIONS)`: a round of the
\* loop, or the code after the loop
LoopStep ==
    /\ pc = "loop"
    /\ IF iterations < MAX_ITERATIONS
       THEN \E result \in {calculateBorrowingPower(
                               [input EXCEPT !.interestRate = currentRate])} :
            LET round == iterations + 1
                trace == Append(iterationResults,
                                iterationEntry(round, result, currentRate))
                newRate == determineInterestRate(result.loanToValueRatio,
                               input.baseRate, input.isFirstHomeBuyer, input.isInvestor)
            IN  /\ iterations' = round
                /\ finalResult' = result
                /\ iterationResults' = trace
                /\ IF convergenceTest(result.maxLoan, previousMaxLoan, newRate, currentRate)
                        \/ round = MAX_ITERATIONS
                   THEN /\ returned' = [result EXCEPT !.iterations = round,
                                                      !.iterationResults = trace,
                                                      !.finalRate =
                                                          finalRateOf(newRate, currentRate)]
                        /\ pc' = "done"
                        /\ UNCHANGED <<currentRate, previousMaxLoan>>
                   ELSE /\ previousMaxLoan' = result.maxLoan
                        /\ currentRate' = newRate
                        /\ pc' = "loop"
                        /\ UNCHANGED returned
       ELSE /\ returned' = IF finalResult # None
                           THEN [finalResult EXCEPT !.iterations = iterations,
                                                    !.iterationResults = iterationResults,
                                                    !.finalRate = currentRate]
                           ELSE emptyResult(input)
            /\ pc' = "done"
            /\ UNCHANGED <<iterations, currentRate, previousMaxLoan,
                           iterationResults, finalResult>>
    /\ UNCHANGED <<input, callVars, lookupVars>>

---------------------------------------------------------------------------
(* Inputs of the pure functions                                            *)

\* every sampled input lies within NearBy units of a boundary of the function
NearBy == 1

UnknownState == "XX"

SeqRange(s) == {s[i] : i \in DOMAIN s}

\* dollars: the bracket thresholds and first-home-buyer thresholds of a state
DutyBoundaries(state) ==
    {t.threshold : t \in SeqRange(stateRatesOf(state).standard)}
      \cup {stateRatesOf(state).firstHomeBuyer.exemptionThreshold,
            stateRatesOf(state).firstHomeBuyer.concessionThreshold}

\* cents
DutyValues(state) ==
    {v \in {Cents(b + d) : b \in DutyBoundaries(state), d \in (-NearBy)..NearBy} : v >= 0}
      \cup {Cents(250000), Cents(3500000)}

DutyArgsOf(s) ==
    {[value |-> v1, value2 |-> v2, state |-> s, isFirstHomeBuyer |-> f,
      isInvestor |-> i] :
        v1 \in DutyValues(s), v2 \in DutyValues(s), f \in BOOLEAN, i \in BOOLEAN}

DutyArgs == UNION {DutyArgsOf(s) : s \in Jurisdictions \cup {UnknownState}}

TaxBoundaries == {18200, 45000, 120000, 180000}

\* cents
TaxIncomes ==
    {Cents(b) + d : b \in TaxBoundaries, d \in (-NearBy)..NearBy}
      \cup {0, Cents(10000), Cents(60000), Cents(90000), Cents(150000), Cents(250000)}

TaxArgs == {[income |-> a, income2 |-> b] : a \in TaxIncomes, b \in TaxIncomes}

LvrBoundaries == {50, 60, 70, 80, 85, 90, 95, 100}

\* 1/10000 percent
LvrValues ==
    {b * LvrUnitsPerPercent + d : b \in LvrBoundaries, d \in (-NearBy)..NearBy}
      \cup {0, 120 * LvrUnitsPerPercent}

BaseRates == {550, 600}

RateArgs ==
    {[lvr |-> a, lvr2 |-> b, baseRate |-> r, isFirstHomeBuyer |-> f, isInvestor |-> i] :
        a \in LvrValues, b \in LvrValues, r \in BaseRates, f \in BOOLEAN, i \in BOOLEAN}

---------------------------------------------------------------------------
(* The pure functions as operations: Init draws the arguments, one action  *)
(* per function applies it                                                 *)

CallIdle ==
    /\ op = "none"
    /\ args = None
    /\ ret = None

SolverIdle ==
    /\ input = None
    /\ pc = "idle"
    /\ iterations = 0
    /\ currentRate = 0
    /\ previousMaxLoan = 0
    /\ iterationResults = <<>>
    /\ finalResult = None
    /\ returned = None

InitDuty ==
    /\ op = "none"
    /\ LookupIdle
    /\ args \in {a \in DutyArgs : a.value <= a.value2}
    /\ ret = None
    /\ SolverIdle

ApplyStampDuty ==
    /\ op = "none"
    /\ op' = "calculateStampDuty"
    /\ ret' = [duty |-> calculateStampDuty(args.value, args.state,
                                          args.isFirstHomeBuyer, args.isInvestor),
               duty2 |-> calculateStampDuty(args.value2, args.state,
                                           args.isFirstHomeBuyer, args.isInvestor)]
    /\ UNCHANGED <<args, solverVars, lookupVars>>

ApplyProgressiveDuty ==
    /\ op = "none"
    /\ op' = "calculateProgressiveDuty"
    /\ ret' = calculateProgressiveDuty(args.value, stateRatesOf(args.state).standard)
    /\ UNCHANGED <<args, solverVars, lookupVars>>

NextDuty == ApplyStampDuty \/ ApplyProgressiveDuty

SpecDuty == InitDuty /\ [][NextDuty]_vars

InitTax ==
    /\ op = "none"
    /\ LookupIdle
    /\ args \in {a \in TaxArgs : a.income <= a.income2}
    /\ ret = None
    /\ SolverIdle

ApplyTax ==
    /\ op = "none"
    /\ op' = "calculateTax"
    /\ ret' = [tax |-> calculateTax(args.income), tax2 |-> calculateTax(args.income2)]
    /\ UNCHANGED <<args, solverVars, lookupVars>>

NextTax == ApplyTax

SpecTax == InitTax /\ [][NextTax]_vars

InitRate ==
    /\ op = "none"
    /\ LookupIdle
    /\ args \in {a \in RateArgs : a.lvr <= a.lvr2}
    /\ ret = None
    /\ SolverIdle

ApplyLvrRange ==
    /\ op = "none"
    /\ op' = "getLvrRangeFromValue"
    /\ ret' = getLvrRangeFromValue(args.lvr)
    /\ UNCHANGED <<args, solverVars, lookupVars>>

ApplyDetermineRate ==
    /\ op = "none"
    /\ op' = "determineInterestRate"
    /\ ret' = [rate |-> determineInterestRate(args.lvr, args.baseRate,
                                             args.isFirstHomeBuyer, args.isInvestor),
               rate2 |-> determineInterestRate(args.lvr2, args.baseRate,
                                              args.isFirstHomeBuyer, args.isInvestor)]
    /\ UNCHANGED <<args, solverVars, lookupVars>>

NextRate == ApplyLvrRange \/ ApplyDetermineRate

SpecRate == InitRate /\ [][NextRate]_vars

---------------------------------------------------------------------------
(* Rate lookups through the useRates hook                                  *)

\* longest rate table
MaxRates == 2

rateConfiguration(lender, lvrRange, productType, repaymentType, borrowerType, amounts, features, rate, comparisonRate) ==
    [lender |-> lender, lvrRange |-> lvrRange, productType |-> productType,
     repaymentType |-> repaymentType, borrowerType |-> borrowerType,
     minLoanAmount |-> amounts[1], maxLoanAmount |-> amounts[2],
     isFirstHomeBuyerEligible |-> features[1], hasOffset |-> features[2],
     hasRedraw |-> features[3], rate |-> rate, comparisonRate |-> comparisonRate]

RateConfigurations ==
    {rateConfiguration("A", "70_80", "variable", "principal_and_interest",
                       "owner_occupier", <<Cents(500000), null>>,
                       <<TRUE, TRUE, TRUE>>, 599, 610),
     rateConfiguration("B", "70_80", "variable", "principal_and_interest",
                       "owner_occupier", <<0, Cents(500000)>>,
                       <<FALSE, FALSE, TRUE>>, 589, 601),
     rateConfiguration("C", "70_80", "variable", "principal_and_interest",
                       "owner_occupier", <<0, null>>,
                       <<TRUE, TRUE, FALSE>>, 589, 595),
     rateConfiguration("D", "80_85", "variable", "principal_and_interest",
                       "owner_occupier", <<0, null>>,
                       <<TRUE, TRUE, TRUE>>, 629, 640),
     rateConfiguration("E", "70_80", "fixed_1", "principal_and_interest",
                       "owner_occupier", <<0, null>>,
                       <<TRUE, TRUE, TRUE>>, 549, 580),
     rateConfiguration("F", "70_80", "variable", "interest_only",
                       "owner_occupier", <<0, null>>,
                       <<TRUE, TRUE, TRUE>>, 559, 590),
     rateConfiguration("G", "70_80", "variable", "principal_and_interest",
                       "investor", <<0, null>>,
                       <<TRUE, TRUE, TRUE>>, 569, 600)}

\* tables of distinct configurations, in every order
RateTables ==
    UNION {{t \in [1..n -> RateConfigurations] :
               \A i, j \in 1..n : i # j => t[i] # t[j]} : n \in 0..MaxRates}

LookupArgs ==
    {[lvrPercentage |-> l, productType |-> "variable",
      repaymentType |-> "principal_and_interest", borrowerType |-> "owner_occupier",
      loanAmount |-> a, isFirstHomeBuyer |-> f, hasOffset |-> o, hasRedraw |-> r] :
        l \in {80 * LvrUnitsPerPercent, 80 * LvrUnitsPerPercent + 1},
        a \in {Cents(100000), Cents(500000), Cents(1000000)},
        f \in BOOLEAN, o \in BOOLEAN, r \in BOOLEAN}

InitLookup ==
    /\ CallIdle
    /\ SolverIdle
    /\ rateDatabase \in RateTables
    /\ useRates = useRatesInitially

\* useRates.findBestRate
FindBestRate ==
    \E a \in LookupArgs :
      \E bestRate \in {getBestRate(a.lvrPercentage, a.productType, a.repaymentType,
                                   a.borrowerType, a.loanAmount, a.isFirstHomeBuyer,
                                   a.hasOffset, a.hasRedraw)} :
        /\ useRates' = setRatesAfter(useRates, bestRate)
        /\ op' = "findBestRate"
        /\ args' = a
        /\ ret' = bestRate
        /\ UNCHANGED <<rateDatabase, solverVars>>

NextLookup == FindBestRate

SpecLookup == InitLookup /\ [][NextLookup]_vars

---------------------------------------------------------------------------
(* Calls of the rate repository                                            *)

\* findEligibleRates has no hasOffset and hasRedraw parameters
EligibleArgs == {a \in LookupArgs : ~a.hasOffset /\ ~a.hasRedraw}

Lenders == {"A", "B", "Z"}

\* the tables initializeRateDatabase is called with
ReplacementTables == {t \in RateTables : Len(t) <= 1}

InitRepository ==
    /\ CallIdle
    /\ SolverIdle
    /\ rateDatabase \in RateTables
    /\ useRates = useRatesInitially

\* findBestRate of the repository
RepositoryFindBestRate ==
    \E a \in LookupArgs :
      \E r \in {sortedCopy(rateDatabase,
                           eligibleRatesOf(a.lvrPercentage, a.productType,
                                           a.repaymentType, a.borrowerType,
                                           a.loanAmount, a.isFirstHomeBuyer,
                                           a.hasOffset, a.hasRedraw))} :
        /\ rateDatabase' = r.rateDatabase
        /\ op' = "findBestRate"
        /\ args' = a
        /\ ret' = IF Len(r.sortedRates) > 0 THEN r.sortedRates[1] ELSE None
        /\ UNCHANGED <<useRates, solverVars>>

RepositoryFindEligibleRates ==
    \E a \in EligibleArgs :
      \E r \in {sortedCopy(rateDatabase,
                           eligibleRatesOf(a.lvrPercentage, a.productType,
                                           a.repaymentType, a.borrowerType,
                                           a.loanAmount, a.isFirstHomeBuyer,
                                           FALSE, FALSE))} :
        /\ rateDatabase' = r.rateDatabase
        /\ op' = "findEligibleRates"
        /\ args' = a
        /\ ret' = [rates |-> r.sortedRates]
        /\ UNCHANGED <<useRates, solverVars>>

RepositoryGetRatesByLender ==
    \E lender \in Lenders :
        /\ op' = "getRatesByLender"
        /\ args' = [lender |-> lender]
        /\ ret' = [rates |-> getRatesByLender(lender)]
        /\ UNCHANGED <<rateDatabase, useRates, solverVars>>

RepositoryGetAllRates ==
    /\ op' = "getAllRates"
    /\ args' = None
    /\ ret' = [rates |-> getAllRates]
    /\ UNCHANGED <<rateDatabase, useRates, solverVars>>

\* initializeRateDatabase: `rateDatabase = rates`
InitializeRateDatabase ==
    \E rates \in ReplacementTables :
        /\ rateDatabase' = rates
        /\ op' = "initializeRateDatabase"
        /\ args' = [rates |-> rates]
        /\ ret' = None
        /\ UNCHANGED <<useRates, solverVars>>

NextRepository ==
    \/ RepositoryFindBestRate
    \/ RepositoryFindEligibleRates
    \/ RepositoryGetRatesByLender
    \/ RepositoryGetAllRates
    \/ InitializeRateDatabase

SpecRepository == InitRepository /\ [][NextRepository]_vars

---------------------------------------------------------------------------
(* Inputs of the solve                                                     *)

MaxDependents == 1

fin(amount, frequency) == [amount |-> Cents(amount), frequency |-> frequency]

Households ==
    {<<[primary |-> fin(90000, "annual")]>>,
     <<[primary |-> fin(1500, "weekly"), supplementary |-> fin(500, "monthly"),
        rental |-> fin(400, "fortnightly")],
       [primary |-> fin(4000, "monthly"), other |-> fin(2000, "annual")]>>,
     <<[primary |-> fin(30000, "annual")]>>}

ExpenseInputs == {fin(2000, "monthly"), fin(2310, "monthly")}

Deposits == {0, Cents(108000), Cents(134000), Cents(196000), Cents(300000)}

PropertyValues == {Cents(500000), Cents(800000)}

SolveStates == {"NSW", "VIC", "QLD", UnknownState}

CoreInputs ==
    {[borrowers |-> b, dependents |-> d, expenses |-> e, interestRate |-> 0,
      loanTerm |-> 30, propertyValue |-> p, deposit |-> s, state |-> st,
      isFirstHomeBuyer |-> f, isInvestor |-> i, baseRate |-> 550] :
        b \in Households, d \in 0..MaxDependents, e \in ExpenseInputs,
        p \in PropertyValues, s \in Deposits, st \in SolveStates,
        f \in BOOLEAN, i \in BOOLEAN}

\* existingDebt and creditCardLimit are optional fields
SolveInputs ==
    CoreInputs
      \cup {c @@ [existingDebt |-> fin(300, "monthly"), creditCardLimit |-> Cents(10000)] :
              c \in CoreInputs}

Init ==
    /\ CallIdle
    /\ LookupIdle
    /\ input \in SolveInputs
    /\ pc = "start"
    /\ iterations = 0
    /\ currentRate = 0
    /\ previousMaxLoan = 0
    /\ iterationResults = <<>>
    /\ finalResult = None
    /\ returned = None

Next == Begin \/ LoopStep

Spec == Init /\ [][Next]_vars

---------------------------------------------------------------------------
(* Calls on inputs outside the intended domain                             *)

\* a frequency that is no key of the multipliers
UnknownFrequency == "quarterly"

EdgeInputs ==
    {[borrowers |-> <<[primary |-> fin(90000, bf)]>>, dependents |-> 0,
      expenses |-> fin(2000, ef), interestRate |-> 0, loanTerm |-> t,
      propertyValue |-> p, deposit |-> 0, state |-> "NSW",
      isFirstHomeBuyer |-> f, isInvestor |-> FALSE, baseRate |-> 550] :
        bf \in {"annual", UnknownFrequency}, ef \in {"monthly", UnknownFrequency},
        t \in {0, 30}, p \in {0, Cents(800000)}, f \in BOOLEAN}

EdgeArgs ==
    {[input |-> in, loanAmount |-> l] : in \in EdgeInputs, l \in {0, Cents(400000)}}
      \cup {[amount |-> a, rate |-> r, nper |-> n] :
              a \in {Cents(-1000), 0, Cents(3000)}, r \in {0, 780}, n \in {0, 12, 360}}

InitEdge ==
    /\ op = "none"
    /\ args \in EdgeArgs
    /\ ret = None
    /\ SolverIdle
    /\ LookupIdle

CallPV ==
    /\ op = "none"
    /\ "rate" \in DOMAIN args
    /\ op' = "calculatePV"
    /\ ret' = [threw |-> FALSE,
               value |-> calculatePVNumber(args.amount, args.rate, args.nper)]
    /\ UNCHANGED <<args, solverVars, lookupVars>>

CallPmt ==
    /\ op = "none"
    /\ "rate" \in DOMAIN args
    /\ op' = "calculatePmt"
    /\ ret' = [threw |-> FALSE,
               value |-> calculatePmtNumber(args.amount, args.rate, args.nper)]
    /\ UNCHANGED <<args, solverVars, lookupVars>>

CallLoanServiceability ==
    /\ op = "none"
    /\ "input" \in DOMAIN args
    /\ op' = "calculateLoanServiceability"
    /\ ret' = calculateLoanServiceabilityNumber(args.input, args.loanAmount)
    /\ UNCHANGED <<args, solverVars, lookupVars>>

NextEdge == CallPV \/ CallPmt \/ CallLoanServiceability

SpecEdge == InitEdge /\ [][NextEdge]_vars

---------------------------------------------------------------------------
(* The income total of a household                                         *)

MaxBorrowers == 3

BorrowerPool ==
    {[primary |-> fin(90000, "annual")],
     [primary |-> fin(1500, "weekly"), supplementary |-> fin(501, "monthly"),
      rental |-> fin(400, "fortnightly")],
     [primary |-> fin(4000, "monthly"), other |-> fin(2005, "annual")],
     [primary |-> fin(1234, "fortnightly"), supplementary |-> fin(77, "weekly"),
      other |-> fin(33, "monthly"), rental |-> fin(15001, "annual")]}

\* the orders of n borrowers: the one-to-one maps of 1..n onto itself
OrdersOf(n) ==
    {o \in [1..n -> 1..n] : \A i, j \in 1..n : o[i] = o[j] => i = j}

\* the borrowers array in another order
reordered(borrowers, order) == [i \in 1..Len(borrowers) |-> borrowers[order[i]]]

IncomeArgsOf(n) ==
    {[borrowers |-> b, order |-> o] : b \in [1..n -> BorrowerPool], o \in OrdersOf(n)}

IncomeArgs == UNION {IncomeArgsOf(n) : n \in 0..MaxBorrowers}

InitIncome ==
    /\ op = "none"
    /\ args \in IncomeArgs
    /\ ret = None
    /\ SolverIdle
    /\ LookupIdle

\* calculateTotalIncome of the array, and of the array in the other order
ApplyTotalIncome ==
    /\ op = "none"
    /\ op' = "calculateTotalIncome"
    /\ ret' = [total |-> calculateTotalIncome(args.borrowers),
               reordered |->
                   calculateTotalIncome(reordered(args.borrowers, args.order))]
    /\ UNCHANGED <<args, solverVars, lookupVars>>

NextIncome == ApplyTotalIncome

SpecIncome == InitIncome /\ [][NextIncome]_vars

---------------------------------------------------------------------------
(* Calls of the formula-driven rate resolver                               *)

InterestRateTypes ==
    {"VARIABLE", "FIXED_1YR", "FIXED_2YR", "FIXED_3YR", "FIXED_4YR", "FIXED_5YR"}

RepaymentTypes == {"PRINCIPAL_AND_INTEREST", "INTEREST_ONLY"}

FeatureTypes == {"BASIC", "OFFSET"}

LoanPurposes == {"OWNER_OCCUPIER", "INVESTOR"}

ConfigurationArgs ==
    {[lvrTier |-> LvrTier[t], interestRateType |-> i, repaymentType |-> r,
      featureType |-> f, loanPurpose |-> p] :
        t \in DOMAIN LvrTier, i \in InterestRateTypes, r \in RepaymentTypes,
        f \in FeatureTypes, p \in LoanPurposes}

InitConfiguration ==
    /\ op = "none"
    /\ args \in ConfigurationArgs
    /\ ret = None
    /\ SolverIdle
    /\ LookupIdle

ApplyRateByConfiguration ==
    /\ op = "none"
    /\ op' = "getRateByConfiguration"
    /\ ret' = getRateByConfiguration(args.lvrTier, args.interestRateType,
                                     args.repaymentType, args.featureType,
                                     args.loanPurpose)
    /\ UNCHANGED <<args, solverVars, lookupVars>>

NextConfiguration == ApplyRateByConfiguration

SpecConfiguration == InitConfiguration /\ [][NextConfiguration]_vars

---------------------------------------------------------------------------
(* The annuity functions                                                   *)

\* a dollar amount in 1/1000 dollar: the annuity functions are linear in the
\* amount, and a round trip loses up to nper units of it to rounding
MilliDollars(dollars) == dollars * 1000

AnnuityArgs ==
    {[principal |-> MilliDollars(d), rate |-> r, nper |-> n] :
        d \in {-1000000, -500000, 0, 500000, 750000, 1000000, 2000000},
        r \in {1, 250, 580, 780, 1200},
        n \in {1, 12, 300, 360}}

InitAnnuity ==
    /\ op = "none"
    /\ args \in AnnuityArgs
    /\ ret = None
    /\ SolverIdle
    /\ LookupIdle

\* calculatePmt, and calculatePV of its result
ApplyPmtThenPV ==
    /\ op = "none"
    /\ op' = "calculatePV(calculatePmt)"
    /\ \E pmt \in {calculatePmt(args.principal, args.rate, args.nper)} :
          ret' = [pmt |-> pmt, pv |-> calculatePV(pmt, args.rate, args.nper)]
    /\ UNCHANGED <<args, solverVars, lookupVars>>

NextAnnuity == ApplyPmtThenPV

SpecAnnuity == InitAnnuity /\ [][NextAnnuity]_vars

---------------------------------------------------------------------------
(* Single-pass borrowing power and loan serviceability                     *)

\* cents from the break-even point
BreakEvenOffsets == {-200, 0, 1, 200}

PowerBase ==
    {[borrowers |-> b, dependents |-> d, expenses |-> fin(2000, "monthly"),
      interestRate |-> r, loanTerm |-> 30, propertyValue |-> Cents(800000),
      deposit |-> s, state |-> st, isFirstHomeBuyer |-> f, isInvestor |-> i,
      baseRate |-> 550] :
        b \in Households, d \in 0..MaxDependents, r \in {0, 650},
        s \in {Cents(150000), Cents(196000)}, st \in {"NSW", "VIC"},
        f \in BOOLEAN, i \in BOOLEAN}

\* the property value at which the loan needed for it is the maximum loan
breakEvenValue(in) ==
    Let(assessmentOf(in),
        LAMBDA a : Let(propertyOf(in, a),
                       LAMBDA p : p.maxLoan + in.deposit
                                    - (p.finalStampDuty + p.finalOtherCharges)))

\* the base inputs with the property value moved to the break-even point
atBreakEven(in) ==
    {[in EXCEPT !.propertyValue = v + o] :
        o \in BreakEvenOffsets, v \in {breakEvenValue(in)}}

PowerAtBreakEven ==
    {t \in UNION {atBreakEven(b) : b \in PowerBase} : t.propertyValue > 0}

\* the rates determineInterestRate can give an input
ratesOf(in) ==
    {determineInterestRate(l, in.baseRate, in.isFirstHomeBuyer, in.isInvestor) :
        l \in LvrValues}

\* a plain loan amount, and the loans whose repayment at a rate of the input
\* is about its monthly disposable income
LoanAmountsOf(in) ==
    {Cents(400000)}
      \cup {l \in {calculatePV(d, r + INTEREST_BUFFER, in.loanTerm * 12) + o :
                      d \in {assessmentOf(in).monthlyDisposable}, r \in ratesOf(in),
                      o \in BreakEvenOffsets} : l > 0}

PowerArgs ==
    {[input |-> b, loanAmount |-> l] : l \in {Cents(400000)}, b \in PowerAtBreakEven}
      \cup UNION {{[input |-> b, loanAmount |-> l] : l \in LoanAmountsOf(b)} :
                    b \in PowerBase}

InitPower ==
    /\ op = "none"
    /\ args \in PowerArgs
    /\ ret = None
    /\ SolverIdle
    /\ LookupIdle

ApplyBorrowingPower ==
    /\ op = "none"
    /\ op' = "calculateBorrowingPower"
    /\ ret' = calculateBorrowingPower(args.input)
    /\ UNCHANGED <<args, solverVars, lookupVars>>

ApplyLoanServiceability ==
    /\ op = "none"
    /\ op' = "calculateLoanServiceability"
    /\ ret' = calculateLoanServiceability(args.input, args.loanAmount)
    /\ UNCHANGED <<args, solverVars, lookupVars>>

NextPower == ApplyBorrowingPower \/ ApplyLoanServiceability

SpecPower == InitPower /\ [][NextPower]_vars

---------------------------------------------------------------------------
(* The iterative solver                                                    *)

\* the rate the Rate Resolver gives for an LVR under the input's flags
resolvedRate(lvr) ==
    determineInterestRate(lvr, input.baseRate, input.isFirstHomeBuyer, input.isInvestor)

\* C1: the solver is never stuck before it returns, it starts a round only
\* when fewer than 10 rounds have run, and the result it returns has
\* 1 <= iterations <= 10.
C1_TerminatesWithinTenRounds ==
    /\ iterations \in 0..10
    /\ pc = "loop" => iterations < 10
    /\ pc # "done" => ENABLED Next
    /\ pc = "done" => returned.iterations \in 1..10

\* a solve that ran all ten rounds and returned
C1_StoppedAtCap ==
    /\ pc = "done"
    /\ iterations = 10
    /\ returned.iterations = 10

\* C2: in every returned result, finalRate is the rate the Rate Resolver gives
\* for the returned loanToValueRatio with the input's flags.
C2_FinalRateResolvedAtReturnedLvr ==
    pc = "done" => returned.finalRate = resolvedRate(returned.loanToValueRatio)

\* a solve returned at the cap whose final rate differs from the rate the last
\* round was computed with
C2_ReturnedWithNewRate ==
    /\ pc = "done"
    /\ returned.iterations = 10
    /\ returned.finalRate # returned.iterationResults[10].rate
    /\ returned.finalRate = resolvedRate(returned.loanToValueRatio)

\* the convergence test as the claim words it, on round k of a trace: the loan
\* moved by less than 1000 dollars from the round before (from 0 in round 1)
\* and the rate resolved at the round's LVR is within 0.01 of the round's rate
roundSatisfiedTest(trace, k) ==
    /\ Abs(trace[k].maxLoan - (IF k = 1 THEN 0 ELSE trace[k - 1].maxLoan)) < Cents(1000)
    /\ Abs(resolvedRate(trace[k].lvr) - trace[k].rate) < 1

noRoundSatisfiedTest(trace) ==
    \A k \in 1..Len(trace) : ~roundSatisfiedTest(trace, k)

\* C3: a returned result has iterations = 10 exactly when no round satisfied
\* the convergence test, and then iterationResults holds all 10 rounds.
C3_CapSignalsNonConvergence ==
    pc = "done" =>
        /\ returned.iterations = 10 <=> noRoundSatisfiedTest(returned.iterationResults)
        /\ returned.iterations = 10 =>
               /\ Len(returned.iterationResults) = 10
               /\ \A k \in 1..10 : returned.iterationResults[k].iteration = k

\* a solve in which none of the ten rounds converged, returned with its trace
C3_NonConvergedSolve ==
    /\ pc = "done"
    /\ returned.iterations = 10
    /\ Len(returned.iterationResults) = 10
    /\ noRoundSatisfiedTest(returned.iterationResults)

\* a solve that converged after more than one round
C3_ConvergedSolve ==
    /\ pc = "done"
    /\ returned.iterations \in 2..9
    /\ roundSatisfiedTest(returned.iterationResults, returned.iterations)

---------------------------------------------------------------------------
(* Stamp duty                                                              *)

standardOf(state) == stateRatesOf(state).standard

firstHomeBuyerOf(state) == stateRatesOf(state).firstHomeBuyer

\* C4: for a fixed jurisdiction and buyer type, calculateStampDuty is
\* non-decreasing in value: the duty of the lower of two values is at most
\* the duty of the higher.
C4_StampDutyNonDecreasing ==
    op = "calculateStampDuty" => ret.duty <= ret.duty2

\* the inconsistency of bracket i of a table: 0 when baseAmount_i is
\* baseAmount_(i-1) + (threshold_i - threshold_(i-1)) * rate_(i-1), in
\* 1/10000 dollar
baseAmountExcess(thresholds, i) ==
    baseAmountOf(thresholds[i]) * DutyUnitsPerDollar
      - (baseAmountOf(thresholds[i - 1]) * DutyUnitsPerDollar
           + (thresholds[i].threshold - thresholds[i - 1].threshold)
               * thresholds[i - 1].rate)

tableConsistent(thresholds) ==
    /\ thresholds[1].threshold = 0
    /\ \A i \in 2..Len(thresholds) :
          /\ thresholds[i - 1].threshold < thresholds[i].threshold
          /\ baseAmountExcess(thresholds, i) = 0

\* C5: the standard bracket table the progressive duty is computed from is
\* consistent: thresholds strictly increasing from 0, and each bracket's
\* baseAmount the cumulative duty at its threshold under the bracket below.
C5_BracketTableConsistent ==
    op = "calculateProgressiveDuty" => tableConsistent(standardOf(args.state))

\* C6: calculateProgressiveDuty at a bracket's threshold is that bracket's
\* baseAmount exactly.
C6_DutyAtThresholdIsBaseAmount ==
    op = "calculateProgressiveDuty" =>
        \A i \in DOMAIN standardOf(args.state) :
            args.value = Cents(standardOf(args.state)[i].threshold)
                => ret = baseAmountOf(standardOf(args.state)[i]) * DutyUnitsPerDollar

\* the progressive duty computed at the threshold of a bracket above the first
C6_AtUpperThreshold ==
    /\ op = "calculateProgressiveDuty"
    /\ \E i \in 2..Len(standardOf(args.state)) :
          /\ args.value = Cents(standardOf(args.state)[i].threshold)
          /\ ret = baseAmountOf(standardOf(args.state)[i]) * DutyUnitsPerDollar
          /\ ret > 0

\* C7: a first-home buyer pays no duty at the exemption threshold T and a
\* positive duty at T + 1.
C7_ExemptionEndsAboveThreshold ==
    (/\ op = "calculateStampDuty"
     /\ args.isFirstHomeBuyer
     /\ args.value = Cents(firstHomeBuyerOf(args.state).exemptionThreshold)
     /\ args.value2 = Cents(firstHomeBuyerOf(args.state).exemptionThreshold + 1))
        => ret.duty = 0 /\ ret.duty2 > 0

\* the duty of a first-home buyer at a positive exemption threshold and one
\* dollar above it
C7_AtExemptionThreshold ==
    /\ op = "calculateStampDuty"
    /\ args.isFirstHomeBuyer
    /\ firstHomeBuyerOf(args.state).exemptionThreshold > 0
    /\ args.value = Cents(firstHomeBuyerOf(args.state).exemptionThreshold)
    /\ args.value2 = args.value + Cents(1)
    /\ ret.duty = 0
    /\ ret.duty2 > 0

\* the duty the claim gives: nothing up to the exemption threshold, the
\* progressive duty less the concession up to the concession threshold, the
\* progressive duty otherwise
piecewiseDuty(value, state, isFirstHomeBuyer) ==
    LET fhb == firstHomeBuyerOf(state)
        progressive == calculateProgressiveDuty(value, standardOf(state))
    IN  IF ~isFirstHomeBuyer THEN progressive
        ELSE IF value <= Cents(fhb.exemptionThreshold) THEN 0
        ELSE IF value <= Cents(fhb.concessionThreshold)
             THEN MulDivSmall(progressive, 100 - fhb.concessionRate, 100)
             ELSE progressive

\* C8: calculateStampDuty is the piecewise duty for a first-home buyer and the
\* standard progressive duty for any other buyer.
C8_StampDutyPiecewise ==
    op = "calculateStampDuty" =>
        /\ ret.duty = piecewiseDuty(args.value, args.state, args.isFirstHomeBuyer)
        /\ ret.duty2 = piecewiseDuty(args.value2, args.state, args.isFirstHomeBuyer)

\* a first-home buyer's duty in the concession range, below the standard duty
C8_InConcessionRange ==
    /\ op = "calculateStampDuty"
    /\ args.isFirstHomeBuyer
    /\ args.value > Cents(firstHomeBuyerOf(args.state).exemptionThreshold)
    /\ args.value <= Cents(firstHomeBuyerOf(args.state).concessionThreshold)
    /\ ret.duty > 0
    /\ ret.duty < calculateProgressiveDuty(args.value, standardOf(args.state))
    /\ args.value2 > Cents(firstHomeBuyerOf(args.state).concessionThreshold)
    /\ ret.duty2 = calculateProgressiveDuty(args.value2, standardOf(args.state))

---------------------------------------------------------------------------
(* Income tax                                                              *)

\* the value at a boundary of the formula of the bracket that starts there
upperFormulaAt(boundary) ==
    CASE boundary = 18200  -> MulDivSmall(Cents(18200) - Cents(18200), 190, 1000)
      [] boundary = 45000  -> Cents(5092) + MulDivSmall(Cents(45000) - Cents(45000), 325, 1000)
      [] boundary = 120000 -> Cents(29467) + MulDivSmall(Cents(120000) - Cents(120000), 370, 1000)
      [] boundary = 180000 -> Cents(51667) + MulDivSmall(Cents(180000) - Cents(180000), 450, 1000)

\* C9: calculateTax is non-decreasing, and at each bracket boundary the tax
\* (the lower bracket's formula) is the value of the upper bracket's formula
\* there, so that a cent more of income adds at most a cent of tax.
C9_TaxNonDecreasingNoJump ==
    op = "calculateTax" =>
        /\ ret.tax <= ret.tax2
        /\ \A b \in TaxBoundaries :
              args.income = Cents(b) =>
                  /\ ret.tax = upperFormulaAt(b)
                  /\ args.income2 = args.income + 1 => ret.tax2 - ret.tax \in 0..1

\* the tax at a boundary where tax is due and a cent above it
C9_AcrossBoundary ==
    /\ op = "calculateTax"
    /\ args.income \in {Cents(b) : b \in TaxBoundaries}
    /\ args.income2 = args.income + 1
    /\ ret.tax > 0
    /\ ret.tax2 >= ret.tax

---------------------------------------------------------------------------
(* LVR buckets                                                             *)

\* the bucket the claim gives an LVR (1/10000 percent)
upperInclusiveBucket(lvr) ==
    CASE lvr <= 60 * LvrUnitsPerPercent -> "0_60"
      [] 60 * LvrUnitsPerPercent < lvr /\ lvr <= 70 * LvrUnitsPerPercent -> "60_70"
      [] 70 * LvrUnitsPerPercent < lvr /\ lvr <= 80 * LvrUnitsPerPercent -> "70_80"
      [] 80 * LvrUnitsPerPercent < lvr /\ lvr <= 85 * LvrUnitsPerPercent -> "80_85"
      [] 85 * LvrUnitsPerPercent < lvr /\ lvr <= 90 * LvrUnitsPerPercent -> "85_90"
      [] 90 * LvrUnitsPerPercent < lvr -> "90_95"

\* the rate of the tier of LVR_SPECIFIC_RATES that ends at maxLvr
tierRate(maxLvr) ==
    (CHOOSE t \in SeqRange(LVR_SPECIFIC_RATES) : t.maxLvr = maxLvr).rate

\* C10: getLvrRangeFromValue gives every LVR its upper-inclusive bucket, and
\* an LVR of exactly 80 is priced at the rate of the tier that ends at 80, not
\* of the tier above.
C10_UpperInclusiveBuckets ==
    /\ op = "getLvrRangeFromValue" => ret = upperInclusiveBucket(args.lvr)
    /\ (op = "determineInterestRate" /\ args.lvr = 80 * LvrUnitsPerPercent) =>
           ret.rate = tierRate(80)
                        + (IF args.isInvestor THEN 20 ELSE 0)

\* an LVR of exactly 80 bucketed
C10_AtEighty ==
    /\ op = "getLvrRangeFromValue"
    /\ args.lvr = 80 * LvrUnitsPerPercent
    /\ ret = "70_80"

---------------------------------------------------------------------------
(* Rate lookup                                                             *)

\* a configuration matches a lookup as the claim words it
configurationMatches(c, a) ==
    /\ c.lvrRange = upperInclusiveBucket(a.lvrPercentage)
    /\ c.productType = a.productType
    /\ c.repaymentType = a.repaymentType
    /\ c.borrowerType = a.borrowerType
    /\ c.minLoanAmount <= a.loanAmount
    /\ (c.maxLoanAmount # null => a.loanAmount <= c.maxLoanAmount)
    /\ (a.isFirstHomeBuyer => c.isFirstHomeBuyerEligible)
    /\ (a.hasOffset => c.hasOffset)
    /\ (a.hasRedraw => c.hasRedraw)

matchingIndices == {i \in DOMAIN rateDatabase : configurationMatches(rateDatabase[i], args)}

\* C11: findBestRate returns null when no configuration of the table matches,
\* and otherwise the first in table order of the matching configurations of
\* minimum rate.
C11_LowestMatchingRateFirstInTable ==
    op = "findBestRate" =>
        IF matchingIndices = {} THEN ret = None
        ELSE \E i \in matchingIndices :
                /\ ret = rateDatabase[i]
                /\ \A j \in matchingIndices :
                      /\ rateDatabase[i].rate <= rateDatabase[j].rate
                      /\ rateDatabase[j].rate = rateDatabase[i].rate => i <= j

\* a lookup over two matching configurations in which the second has the
\* lower rate and is returned
C11_LowerRateBehind ==
    /\ op = "findBestRate"
    /\ matchingIndices = {1, 2}
    /\ rateDatabase[2].rate < rateDatabase[1].rate
    /\ ret = rateDatabase[2]

\* a lookup over two matching configurations of equal rate, the first returned
C11_TieFirstInTable ==
    /\ op = "findBestRate"
    /\ matchingIndices = {1, 2}
    /\ rateDatabase[2].rate = rateDatabase[1].rate
    /\ ret = rateDatabase[1]

\* C19: a lookup that finds no configuration returns null and leaves the hook
\* with currentRate 5.74, currentComparisonRate 5.65 and no selected
\* configuration, whatever the hook held before.
C19_FailedLookupHoldsDefaults ==
    [][(op' = "findBestRate" /\ ret' = None) =>
          /\ useRates'.currentRate = 574
          /\ useRates'.currentComparisonRate = 565
          /\ useRates'.selectedRateConfig = None]_vars

\* a failed lookup behind which the hook holds the defaults
C19_FailedLookup ==
    /\ op = "findBestRate"
    /\ ret = None
    /\ matchingIndices = {}
    /\ Len(rateDatabase) > 0
    /\ useRates = [currentRate |-> 574, currentComparisonRate |-> 565,
                   selectedRateConfig |-> None]

---------------------------------------------------------------------------
(* Rate resolver                                                           *)

\* C12: for fixed flags determineInterestRate is non-decreasing in LVR: the
\* rate of the lower of two LVRs is at most the rate of the higher, above 100
\* and across the first-home-buyer discount at 80 included.
C12_RateNonDecreasingInLvr ==
    op = "determineInterestRate" => ret.rate <= ret.rate2

\* a first-home buyer's rates at LVR 80 and just above it, where the
\* discount starts
C12_AcrossDiscountStart ==
    /\ op = "determineInterestRate"
    /\ args.isFirstHomeBuyer
    /\ args.lvr = 80 * LvrUnitsPerPercent
    /\ args.lvr2 = args.lvr + 1
    /\ ret.rate < ret.rate2

---------------------------------------------------------------------------
(* Serviceability                                                          *)

\* C13: calculateLoanServiceability gives isServiceable exactly when
\* surplus >= 0, with surplus the monthly disposable income less the
\* repayment on loanAmount at the resolved rate plus the 2.0 buffer; a
\* repayment equal to the disposable income is serviceable.
C13_ServiceableIffSurplusNotNegative ==
    op = "calculateLoanServiceability" =>
        /\ ret.isServiceable <=> ret.surplus >= 0
        /\ ret.surplus = assessmentOf(args.input).monthlyDisposable - ret.monthlyRepayment
        /\ ret.monthlyRepayment =
              calculatePmt(args.loanAmount,
                           determineInterestRate(
                               lvrOf(args.loanAmount, args.input.propertyValue),
                               args.input.baseRate, args.input.isFirstHomeBuyer,
                               args.input.isInvestor) + 200,
                           args.input.loanTerm * 12)

\* a loan whose repayment is the whole monthly disposable income
C13_BreakEvenLoan ==
    /\ op = "calculateLoanServiceability"
    /\ ret.monthlyRepayment > 0
    /\ ret.monthlyRepayment = assessmentOf(args.input).monthlyDisposable
    /\ ret.surplus = 0
    /\ ret.isServiceable

\* C14: in every result of calculateBorrowingPower isServiceable is true
\* exactly when surplus >= 0.
C14_ServiceableConsistentWithSurplus ==
    op = "calculateBorrowingPower" => (ret.isServiceable <=> ret.surplus >= 0)

---------------------------------------------------------------------------
(* Annuity round trip                                                      *)

\* C15: for a positive rate and a positive term, the present value of the
\* payment calculatePmt gives a principal is the principal again, within
\* 1e-6 of it.
C15_AnnuityRoundTrip ==
    (op = "calculatePV(calculatePmt)" /\ args.rate > 0 /\ args.nper > 0) =>
        Abs(ret.pv - args.principal) <= Abs(args.principal) \div 1000000

\* a round trip of a positive principal over 360 months
C15_RoundTripOverThirtyYears ==
    /\ op = "calculatePV(calculatePmt)"
    /\ args.principal > 0
    /\ args.nper = 360
    /\ ret.pmt > 0
    /\ ret.pmt < args.principal
    /\ Abs(ret.pv - args.principal) <= args.principal \div 1000000

---------------------------------------------------------------------------
(* Investors and stamp duty                                                *)

\* C20: isInvestor does not alter stamp duty: the duty computed for a value,
\* state and buyer type is the duty computed with isInvestor negated.
C20_InvestorFlagIgnored ==
    op = "calculateStampDuty" =>
        /\ ret.duty = calculateStampDuty(args.value, args.state,
                                         args.isFirstHomeBuyer, ~args.isInvestor)
        /\ ret.duty2 = calculateStampDuty(args.value2, args.state,
                                          args.isFirstHomeBuyer, ~args.isInvestor)

\* a positive duty computed for an investor
C20_InvestorPaysDuty ==
    /\ op = "calculateStampDuty"
    /\ args.isInvestor
    /\ ~args.isFirstHomeBuyer
    /\ ret.duty > 0
    /\ ret.duty = calculateStampDuty(args.value, args.state, FALSE, FALSE)

---------------------------------------------------------------------------
(* Invalid and degenerate input                                            *)

invalidInput(in) ==
    \/ ~frequenciesKnown(in)
    \/ in.loanTerm <= 0
    \/ in.propertyValue <= 0

\* C16: a call with an unrecognized frequency, a non-positive loanTerm or a
\* non-positive propertyValue signals an error and returns no result.
C16_InvalidInputRejected ==
    (op = "calculateLoanServiceability" /\ invalidInput(args.input)) => ret.threw

\* C17: at a rate of exactly 0 calculatePV and calculatePmt reject or give a
\* finite value, never NaN or Infinity.
C17_ZeroRateGuarded ==
    (op \in {"calculatePV", "calculatePmt"} /\ args.rate = 0) =>
        ret.threw \/ ret.value.finite

---------------------------------------------------------------------------
(* The convergence step and the iteration trace                            *)

\* the entry the round just run put on the trace
lastEntry(trace) == trace[Len(trace)]

\* C21: a round k < 10 returns exactly when the loan moved by less than 1000
\* dollars from previousMaxLoan (0 in round 1, else the previous round's
\* maxLoan) and the newly resolved rate is within 0.01 of currentRate; a round
\* that does not return hands newRate and its maxLoan to the next round.
C21_ConvergenceStep ==
    [][(pc = "loop" /\ iterations' = iterations + 1 /\ iterations' < 10) =>
         LET entry == lastEntry(iterationResults')
             newRate == resolvedRate(entry.lvr)
         IN  /\ previousMaxLoan = IF iterations = 0 THEN 0
                                  ELSE lastEntry(iterationResults).maxLoan
             /\ entry.rate = currentRate
             /\ pc' = "done" <=>
                    /\ Abs(entry.maxLoan - previousMaxLoan) < Cents(1000)
                    /\ Abs(newRate - currentRate) < 1
             /\ pc' # "done" =>
                    /\ pc' = "loop"
                    /\ currentRate' = newRate
                    /\ previousMaxLoan' = entry.maxLoan]_vars

\* a round before the cap did not return and handed on a rate that differs
\* from the one it was computed with
C21_ContinuedWithNewRate ==
    /\ pc = "loop"
    /\ iterations \in 1..9
    /\ previousMaxLoan = lastEntry(iterationResults).maxLoan
    /\ currentRate = resolvedRate(lastEntry(iterationResults).lvr)
    /\ currentRate # lastEntry(iterationResults).rate

\* the trace holds one entry per completed round, numbered from 1
traceOrdered ==
    /\ Len(iterationResults) = iterations
    /\ \A i \in 1..Len(iterationResults) : iterationResults[i].iteration = i

\* the returned trace is the trace of the solve, as long as the count says
traceReturned ==
    pc = "done" =>
        /\ returned.iterationResults = iterationResults
        /\ Len(returned.iterationResults) = returned.iterations

\* a step leaves the trace alone or appends the entry of the round it ran:
\* the entry's rate is the rate the round computed its maxLoan with
traceAppended ==
    \/ iterationResults' = iterationResults
    \/ /\ pc = "loop"
       /\ iterationResults' = Append(iterationResults, lastEntry(iterationResults'))
       /\ lastEntry(iterationResults').rate = currentRate
       /\ lastEntry(iterationResults').maxLoan = finalResult'.maxLoan
       /\ finalResult'.debtBreakdown.assessmentRate = currentRate + INTEREST_BUFFER
       /\ finalResult'.maxLoan =
              calculatePV(assessmentOf(input).monthlyDisposable,
                          currentRate + INTEREST_BUFFER, input.loanTerm * 12)

\* C22: the iteration trace is append-only and ordered: one entry per
\* completed round, entry i numbered i and carrying the rate its round
\* computed maxLoan with, and the returned trace has as many entries as the
\* returned iterations count.
C22_TraceAppendOnlyOrdered ==
    /\ [](traceOrdered /\ traceReturned)
    /\ [][traceAppended]_vars

\* a returned trace of several rounds with an entry whose rate is not the
\* rate resolved at that entry's LVR
C22_EntryKeepsRoundRate ==
    /\ pc = "done"
    /\ returned.iterations >= 2
    /\ Len(returned.iterationResults) = returned.iterations
    /\ \E i \in 1..Len(returned.iterationResults) :
          returned.iterationResults[i].rate
              # resolvedRate(returned.iterationResults[i].lvr)

---------------------------------------------------------------------------
(* The cost fields of a result                                             *)

\* one refinement round: the property value the loan and the savings left
\* after the costs at value v add up to
refinementRound(v, maxLoan, in) ==
    maxLoan + (in.deposit - (stampDutyCents(v, in) + calculateOtherCharges(v)))

\* the value after k rounds from maxLoan + deposit
RECURSIVE afterRounds(_, _, _)
afterRounds(k, maxLoan, in) ==
    IF k = 0 THEN maxLoan + in.deposit
    ELSE Let(afterRounds(k - 1, maxLoan, in),
             LAMBDA v : refinementRound(v, maxLoan, in))

\* C23: in every result of calculateBorrowingPower stampDuty is the duty at
\* maxProperty, otherCharges is 2000 + maxProperty * 0.001, deposit is
\* originalSavings less both, originalSavings is input.deposit, and
\* maxProperty is the value after exactly 5 refinement rounds from
\* maxLoan + input.deposit.
C23_CostFieldsConsistent ==
    op = "calculateBorrowingPower" =>
        /\ ret.stampDuty
             = calculateStampDuty(ret.maxProperty, args.input.state,
                                  args.input.isFirstHomeBuyer, args.input.isInvestor)
                 \div DutyUnitsPerCent
        /\ ret.otherCharges = Cents(2000) + ret.maxProperty \div 1000
        /\ ret.deposit = ret.originalSavings - ret.stampDuty - ret.otherCharges
        /\ ret.originalSavings = args.input.deposit
        /\ ret.maxProperty = afterRounds(5, ret.maxLoan, args.input)

\* a result with duty to pay whose fifth refinement round still moved the
\* property value
C23_FifthRoundMoved ==
    /\ op = "calculateBorrowingPower"
    /\ ret.stampDuty > 0
    /\ ret.maxProperty = afterRounds(5, ret.maxLoan, args.input)
    /\ ret.maxProperty # afterRounds(4, ret.maxLoan, args.input)

---------------------------------------------------------------------------
(* The start of a solve: disposable income, expenses and debt              *)

\* monthly-normalized expenses plus dependents * per-dependent cost / 12
monthlyExpenseFigure(in) ==
    normalizeToMonthly(in.expenses)
      + (Cents(DEBT_SHADING_RULES.DEPENDENT_COST) * in.dependents) \div 12

\* monthly-normalized existing debt, 0 when absent
monthlyExistingDebtFigure(in) ==
    IF "existingDebt" \in DOMAIN in THEN normalizeToMonthly(in.existingDebt) ELSE 0

\* creditCardLimit * 0.038, 0 when absent
monthlyCreditCardFigure(in) ==
    IF "creditCardLimit" \in DOMAIN in
    THEN MulDivSmall(in.creditCardLimit, 38, 1000) ELSE 0

monthlyDisposableFigure(in) ==
    (calculateTotalIncome(in.borrowers) - calculateTotalTax(in.borrowers)) \div 12
      - monthlyExpenseFigure(in)
      - monthlyExistingDebtFigure(in)
      - monthlyCreditCardFigure(in)

\* C24: the disposable income every round starts from (surplus plus
\* repayment of its result) is net income / 12 less monthly expenses with
\* dependents, less monthly existing debt, less creditCardLimit * 0.038,
\* absent debts counting 0; totalExpenses and totalDebt are 12 times the
\* monthly expense and monthly debt figures.
C24_DisposableIncomeFormula ==
    finalResult # None =>
        /\ finalResult.surplus + finalResult.monthlyRepayment
             = monthlyDisposableFigure(input)
        /\ finalResult.totalExpenses = 12 * monthlyExpenseFigure(input)
        /\ finalResult.totalDebt
             = 12 * (monthlyExistingDebtFigure(input) + monthlyCreditCardFigure(input))

\* a round run for a household with a dependent, an existing debt and a
\* credit card
C24_WithDependentAndDebts ==
    /\ finalResult # None
    /\ input.dependents > 0
    /\ "existingDebt" \in DOMAIN input
    /\ "creditCardLimit" \in DOMAIN input
    /\ finalResult.totalDebt
         = 12 * (normalizeToMonthly(input.existingDebt)
                   + MulDivSmall(input.creditCardLimit, 38, 1000))
    /\ finalResult.totalDebt > 0

\* a round run for a household with no dependent and neither debt
C24_WithoutDebts ==
    /\ finalResult # None
    /\ input.dependents = 0
    /\ "existingDebt" \notin DOMAIN input
    /\ "creditCardLimit" \notin DOMAIN input
    /\ finalResult.totalDebt = 0

---------------------------------------------------------------------------
(* The income total                                                        *)

\* the annualized amount of a stream at the given percentage, 0 when the
\* borrower has no such stream
streamShare(borrower, stream, percentage) ==
    IF stream \in DOMAIN borrower
    THEN MulDivSmall(borrower[stream].amount
                       * annualMultipliers[borrower[stream].frequency],
                     percentage, 100)
    ELSE 0

\* 100% of primary plus 90% of supplementary, other and rental
shadedIncome(borrower) ==
    streamShare(borrower, "primary", 100)
      + streamShare(borrower, "supplementary", 90)
      + streamShare(borrower, "other", 90)
      + streamShare(borrower, "rental", 90)

\* the sum of the shaded incomes of the borrowers from index i on
RECURSIVE shadedIncomeFrom(_, _)
shadedIncomeFrom(borrowers, i) ==
    IF i > Len(borrowers) THEN 0
    ELSE shadedIncome(borrowers[i]) + shadedIncomeFrom(borrowers, i + 1)

\* C25: calculateTotalIncome is the sum over the borrowers of 100% of the
\* annualized primary income plus 90% of each annualized supplementary, other
\* and rental income, a missing stream counting 0 and an empty list giving 0,
\* and it is the same for the borrowers in any other order.
C25_TotalIncomeOrderIndependentSum ==
    op = "calculateTotalIncome" =>
        /\ ret.total = shadedIncomeFrom(args.borrowers, 1)
        /\ args.borrowers = <<>> => ret.total = 0
        /\ ret.reordered = ret.total

\* the total of three different borrowers, some without optional streams,
\* taken in an order that moves the first borrower
C25_ReorderedHousehold ==
    /\ op = "calculateTotalIncome"
    /\ Len(args.borrowers) = 3
    /\ args.borrowers[1] # args.borrowers[2]
    /\ args.borrowers[2] # args.borrowers[3]
    /\ args.borrowers[1] # args.borrowers[3]
    /\ args.order[1] # 1
    /\ \E i \in 1..3 : "supplementary" \notin DOMAIN args.borrowers[i]
    /\ ret.reordered = ret.total
    /\ ret.total > 0

---------------------------------------------------------------------------
(* The formula-driven resolver                                             *)

\* the tiered base rate of each LVR tier, in basis points
tieredBaseRate ==
    [TIER_50 |-> 560, TIER_60 |-> 560, TIER_70 |-> 570, TIER_80 |-> 590,
     TIER_85 |-> 610, TIER_90_PLUS |-> 630]

\* the adjustment of the rate for a configuration, in 1/100 percent
rateAdjustment(a) ==
    (IF a.loanPurpose = "INVESTOR" THEN 20 ELSE 0)
      + (IF a.interestRateType = "FIXED_1YR" THEN -10 ELSE 0)
      + (IF a.interestRateType = "FIXED_2YR" THEN -5 ELSE 0)
      + (IF a.interestRateType = "FIXED_3YR" THEN 5 ELSE 0)
      + (IF a.interestRateType = "FIXED_5YR" THEN 15 ELSE 0)
      + (IF a.repaymentType = "INTEREST_ONLY" THEN 30 ELSE 0)
      + (IF a.featureType = "OFFSET" THEN 10 ELSE 0)

\* the accumulator of the comparison rate, in 1/100 percent
comparisonAccumulator(a) ==
    20 + (IF a.repaymentType = "INTEREST_ONLY" THEN 10 ELSE 0)
       + (IF a.featureType = "OFFSET" THEN 5 ELSE 0)
       + (IF a.loanPurpose = "INVESTOR" THEN 10 ELSE 0)

\* the index of a tier in the order of the tiers
tierIndex(lvrTier) == CHOOSE t \in DOMAIN LvrTier : LvrTier[t] = lvrTier

\* C26: getRateByConfiguration returns the tiered base rate of the LVR tier
\* plus 0.20 for an investor, -0.10 / -0.05 / +0.05 / +0.15 for 1/2/3/5-year
\* fixed, +0.30 for interest-only and +0.10 for offset; its comparisonRate is
\* that rate plus 0.20, +0.10 interest-only, +0.05 offset, +0.10 investor; and
\* with the other parameters fixed the rate does not fall as the tier rises.
C26_RateByConfigurationFormula ==
    op = "getRateByConfiguration" =>
        /\ ret.rate = tieredBaseRate[args.lvrTier] + rateAdjustment(args)
        /\ ret.comparisonRate = ret.rate + comparisonAccumulator(args)
        /\ \A t \in DOMAIN LvrTier :
              t >= tierIndex(args.lvrTier) =>
                  getRateByConfiguration(LvrTier[t], args.interestRateType,
                                         args.repaymentType, args.featureType,
                                         args.loanPurpose).rate >= ret.rate

\* an interest-only investor loan with offset, fixed for two years, at the
\* 60% tier
C26_EveryAdjustmentApplied ==
    /\ op = "getRateByConfiguration"
    /\ args.lvrTier = "TIER_60"
    /\ args.loanPurpose = "INVESTOR"
    /\ args.interestRateType = "FIXED_2YR"
    /\ args.repaymentType = "INTEREST_ONLY"
    /\ args.featureType = "OFFSET"
    /\ ret.rate = 560 + 20 - 5 + 30 + 10
    /\ ret.comparisonRate = ret.rate + 45

---------------------------------------------------------------------------
(* The shared rate table                                                   *)

RepositoryLookups ==
    {"findBestRate", "findEligibleRates", "getRatesByLender", "getAllRates"}

\* C27: a lookup (findBestRate, findEligibleRates, getRatesByLender,
\* getAllRates) leaves rateDatabase with the same configurations in the same
\* order; only initializeRateDatabase changes it, to the whole table it was
\* given, and a lookup reads the table as a whole.
C27_LookupsLeaveTableUnchanged ==
    [][/\ op' \in RepositoryLookups => rateDatabase' = rateDatabase
       /\ rateDatabase' # rateDatabase =>
              /\ op' = "initializeRateDatabase"
              /\ rateDatabase' = args'.rates
       /\ op' = "initializeRateDatabase" => rateDatabase' = args'.rates
       /\ op' = "getAllRates" => ret'.rates = rateDatabase']_vars

\* a lookup returned the second configuration of a table whose first has the
\* higher rate, and the table is still in that order
C27_UnsortedTableAfterLookup ==
    /\ op = "findBestRate"
    /\ Len(rateDatabase) = 2
    /\ rateDatabase[1].rate > rateDatabase[2].rate
    /\ ret = rateDatabase[2]

\* a table put in place by initializeRateDatabase, read back whole
C27_ReplacedTableRead ==
    /\ op = "getAllRates"
    /\ Len(rateDatabase) = 1
    /\ ret.rates = rateDatabase

---------------------------------------------------------------------------
(* The reported property value                                             *)

\* C28: in every result the solve returns, maxProperty is maxLoan plus the
\* reported deposit (to the dollar), the deposit being the savings left after
\* the reported stampDuty and otherCharges.
C28_PropertyIsLoanPlusDeposit ==
    pc = "done" =>
        /\ returned.deposit
             = returned.originalSavings - returned.stampDuty - returned.otherCharges
        /\ Abs(returned.maxProperty - (returned.maxLoan + returned.deposit))
             <= Cents(1)

---------------------------------------------------------------------------
(* The rate behind a result returned before the cap                        *)

\* C29: when the solver returns before the cap (iterations < 10), the rate
\* the returned maxLoan was computed with (the last trace entry's rate, which
\* is debtBreakdown.assessmentRate less 2.0) differs from finalRate by less
\* than 0.01.
C29_EarlyReturnRateAgrees ==
    (pc = "done" /\ returned.iterations < 10) =>
        /\ lastEntry(returned.iterationResults).rate
             = returned.debtBreakdown.assessmentRate - 200
        /\ lastEntry(returned.iterationResults).maxLoan = returned.maxLoan
        /\ Abs(lastEntry(returned.iterationResults).rate - returned.finalRate) < 1

\* a solve that returned before the cap after the rate had changed from one
\* round to the next
C29_EarlyReturnAfterRateChange ==
    /\ pc = "done"
    /\ returned.iterations \in 2..9
    /\ returned.iterationResults[1].rate
         # lastEntry(returned.iterationResults).rate
    /\ returned.finalRate = lastEntry(returned.iterationResults).rate

---------------------------------------------------------------------------
(* The baseRate input                                                      *)

\* the input of the solve with another baseRate
withBaseRate(b) == [input EXCEPT !.baseRate = b]

\* the rate a round of the solve was run with
roundRate == lastEntry(iterationResults).rate

\* the solve so far is what it is for the input with baseRate b: the rate of
\* the first round, the result of the latest round, the rate resolved from
\* it, and calculateLoanServiceability at its maximum loan
sameSolveWith(b) ==
    /\ (pc = "loop" /\ iterations = 0) =>
          currentRate = determineInterestRate(initialLvrOf(withBaseRate(b)), b,
                                              input.isFirstHomeBuyer, input.isInvestor)
    /\ finalResult # None =>
          /\ finalResult
               = calculateBorrowingPower([withBaseRate(b) EXCEPT !.interestRate = roundRate])
          /\ (pc = "loop" =>
                currentRate = determineInterestRate(finalResult.loanToValueRatio, b,
                                  input.isFirstHomeBuyer, input.isInvestor))
          /\ (pc = "done" =>
                returned.finalRate
                  = determineInterestRate(finalResult.loanToValueRatio, b,
                                          input.isFirstHomeBuyer, input.isInvestor))
          /\ finalResult.maxLoan > 0 =>
                calculateLoanServiceability(withBaseRate(b), finalResult.maxLoan)
                  = calculateLoanServiceability(input, finalResult.maxLoan)

====
